---- MODULE Spec2Model ----
(***************************************************************************)
(* Model of the OpenAI plugin lifecycle manager (lifecycle_manager.py):    *)
(* the minimal BaseLifecycleManager (active_users, install_for_user,       *)
(* uninstall_for_user), OpenAILifecycleManager's record-store adapter      *)
(* (_check_existing_plugin, _create_database_records,                      *)
(* _delete_database_records, _export_user_data, _import_user_data), its    *)
(* file stager (_copy_plugin_files_impl, _validate_installation_impl,     *)
(* _get_plugin_health_impl) and the public compatibility operations        *)
(* (install_plugin, delete_plugin, get_plugin_status, update_plugin).      *)
(*                                                                         *)
(* The record store is a transactional session: statements act on a        *)
(* working copy, commit publishes it, rollback restores the committed      *)
(* copy, primary keys are unique.  Any store call and any top-level file   *)
(* operation may raise; the set of calls that raise during one operation   *)
(* is an input of that operation.                                          *)
(***************************************************************************)
EXTENDS Naturals, Sequences, FiniteSets, TLC

VARIABLES
    active,     \* active[m]: BaseLifecycleManager.active_users of instance m
    db,         \* the caller's AsyncSession: committed and working tables, call log
    source,     \* the plugin source directory (Path(__file__).parent)
    target,     \* the shared directory (self.shared_path) the instances stage into
    completed,  \* completed[m]: users with a successful install_for_user by m and no
                \* successful uninstall_for_user by m since (history of return values)
    last,       \* the operation under observation: arguments, return value, state before
    inflight    \* inflight[c]: the call c of two interleaved calls: what was called,
                \* the await it is suspended on, what it returned

vars == <<active, db, source, target, completed, last, inflight>>

----------------------------------------------------------------------------
(* Bounds of the model *)

Users == {"u1", "u2"}

\* m1 is the instance the callers use; m2 is a second instance (the manager
\* of the new version handed to update_plugin, or any other process).
Managers == {"m1", "m2"}

----------------------------------------------------------------------------
(* Metadata Provider: plugin_data and module_data *)

plugin_slug == "OpenAIPlugin"

plugin_version == "1.0.0"

\* module_data[i].name, in list order.
ModuleNames == <<"ComponentOpenAIStatus", "ComponentOpenAIChat">>

\* module_data[i].config_fields: the field schema stored as the module's
\* initial configuration (field name -> its declaration).
ModuleConfigFields(name) ==
    IF name = "ComponentOpenAIStatus"
    THEN [refresh_interval |-> "number:30"]
    ELSE [default_model |-> "string:gpt-3.5-turbo",
          max_tokens |-> "number:1000",
          temperature |-> "number:0.7"]

\* The empty dict {}.
EmptyDict == [k \in {} |-> "none"]

----------------------------------------------------------------------------
(* json.dumps / json.loads on configuration mappings.  The text of an      *)
(* object is modelled by its set of "key": value members; a column may     *)
(* also hold NULL or text that is not JSON.                                *)

NullText == [kind |-> "null", members |-> {}]
GarbageText == [kind |-> "garbage", members |-> {}]

json_dumps(d) == [kind |-> "object", members |-> {<<k, d[k]>> : k \in DOMAIN d}]

json_loads_ok(t) == t.kind = "object"

json_loads(t) ==
    [k \in {p[1] : p \in t.members} |-> (CHOOSE p \in t.members : p[1] = k)[2]]

\* Python truthiness of a column value: None is falsy, any JSON text
\* (even "{}") is a non-empty string.
Truthy(t) == t.kind # "null"

----------------------------------------------------------------------------
(* The record store behind the AsyncSession handle.  A table is the set of *)
(* its rows; d.working is what statements of the session read and write,   *)
(* d.committed what the last commit published.  d.faults is the set of     *)
(* calls that raise during the current operation, d.calls the log of the   *)
(* calls the current operation has issued.                                 *)

EmptyTables == [plugin |-> {}, module |-> {}]

Logged(d, c) == [d EXCEPT !.calls = Append(@, c)]

Raise(d, e) == [db |-> d, raised |-> TRUE, error |-> e]

Return(d, r) == [db |-> d, raised |-> FALSE, ret |-> r]

\* SELECT ... FROM plugin WHERE user_id = :user_id AND plugin_slug = :plugin_slug
select_plugin(d, user_id, slug) ==
    IF "select_plugin" \in d.faults
    THEN Raise(Logged(d, "select_plugin"), "StoreError")
    ELSE Return(Logged(d, "select_plugin"),
                {r \in d.working.plugin : r.user_id = user_id /\ r.plugin_slug = slug})

\* SELECT name, config_fields FROM module WHERE plugin_id = :plugin_id AND user_id = :user_id
select_modules(d, plugin_id, user_id) ==
    IF "select_modules" \in d.faults
    THEN Raise(Logged(d, "select_modules"), "StoreError")
    ELSE Return(Logged(d, "select_modules"),
                {r \in d.working.module : r.plugin_id = plugin_id /\ r.user_id = user_id})

\* INSERT INTO plugin ...: the id is the primary key.
insert_plugin(d, row) ==
    IF "insert_plugin" \in d.faults
    THEN Raise(Logged(d, "insert_plugin"), "StoreError")
    ELSE IF \E r \in d.working.plugin : r.id = row.id
    THEN Raise(Logged(d, "insert_plugin"), "IntegrityError")
    ELSE Return([Logged(d, "insert_plugin") EXCEPT !.working.plugin = @ \cup {row}], 1)

\* INSERT INTO module ...: the id is the primary key.
insert_module(d, row) ==
    IF ("insert_module_" \o row.name) \in d.faults
    THEN Raise(Logged(d, "insert_module"), "StoreError")
    ELSE IF \E r \in d.working.module : r.id = row.id
    THEN Raise(Logged(d, "insert_module"), "IntegrityError")
    ELSE Return([Logged(d, "insert_module") EXCEPT !.working.module = @ \cup {row}], 1)

\* Fault seeded for C5: the DELETE compares the module id with the plugin id.
delete_modules_by_id(d, plugin_id, user_id) ==
    LET hit == {r \in d.working.module : r.id = plugin_id /\ r.user_id = user_id}
    IN  IF "delete_module" \in d.faults
        THEN Raise(Logged(d, "delete_module"), "StoreError")
        ELSE Return([Logged(d, "delete_module") EXCEPT !.working.module = @ \ hit],
                    Cardinality(hit))

\* DELETE FROM module WHERE plugin_id = :plugin_id AND user_id = :user_id; returns rowcount
delete_modules(d, plugin_id, user_id) ==
    LET hit == {r \in d.working.module : r.plugin_id = plugin_id /\ r.user_id = user_id}
    IN  IF "delete_module" \in d.faults
        THEN Raise(Logged(d, "delete_module"), "StoreError")
        ELSE Return([Logged(d, "delete_module") EXCEPT !.working.module = @ \ hit],
                    Cardinality(hit))

\* DELETE FROM plugin WHERE id = :plugin_id AND user_id = :user_id; returns rowcount
delete_plugin_row(d, plugin_id, user_id) ==
    LET hit == {r \in d.working.plugin : r.id = plugin_id /\ r.user_id = user_id}
    IN  IF "delete_plugin" \in d.faults
        THEN Raise(Logged(d, "delete_plugin"), "StoreError")
        ELSE Return([Logged(d, "delete_plugin") EXCEPT !.working.plugin = @ \ hit],
                    Cardinality(hit))

\* UPDATE plugin SET config_fields = :config_fields WHERE id = :plugin_id AND user_id = :user_id
update_plugin_config(d, plugin_id, user_id, text) ==
    IF "update_plugin" \in d.faults
    THEN Raise(Logged(d, "update_plugin"), "StoreError")
    ELSE Return([Logged(d, "update_plugin") EXCEPT !.working.plugin =
                    {IF r.id = plugin_id /\ r.user_id = user_id
                     THEN [r EXCEPT !.config_fields = text] ELSE r : r \in @}],
                Cardinality({r \in d.working.plugin : r.id = plugin_id /\ r.user_id = user_id}))

\* UPDATE module SET config_fields = :config_fields WHERE id = :module_id AND user_id = :user_id
update_module_config(d, module_name, module_id, user_id, text) ==
    IF ("update_module_" \o module_name) \in d.faults
    THEN Raise(Logged(d, "update_module"), "StoreError")
    ELSE Return([Logged(d, "update_module") EXCEPT !.working.module =
                    {IF r.id = module_id /\ r.user_id = user_id
                     THEN [r EXCEPT !.config_fields = text] ELSE r : r \in @}],
                Cardinality({r \in d.working.module : r.id = module_id /\ r.user_id = user_id}))

\* AsyncSession.commit: publishes the working tables.
commit(d) ==
    IF "commit" \in d.faults
    THEN Raise(Logged(d, "commit"), "StoreError")
    ELSE Return([Logged(d, "commit") EXCEPT !.committed = d.working], 0)

\* Fault seeded for C15: the rollback leaves the working tables as they are.
rollback_keeping_writes(d) ==
    IF "rollback" \in d.faults
    THEN Raise(Logged(d, "rollback"), "StoreError")
    ELSE Return(Logged(d, "rollback"), 0)

\* AsyncSession.rollback: discards what was written since the last commit.
rollback(d) ==
    IF "rollback" \in d.faults
    THEN Raise(Logged(d, "rollback"), "StoreError")
    ELSE Return([Logged(d, "rollback") EXCEPT !.working = d.committed], 0)

----------------------------------------------------------------------------
(* Record Store Adapter.  A function body is a chain of store calls; the   *)
(* first call that raises ends the chain (control passes to the except     *)
(* branch).  Then(s, F) continues the chain s with F unless s has raised.  *)

Then(s, F(_)) == IF s.raised THEN s ELSE F(s)

\* The outcome c of a call, returning r instead of the call's own value.
KeepRet(c, r) == IF c.raised THEN c ELSE Return(c.db, r)

Failure(e) == [success |-> FALSE, error |-> e]

\* f"{user_id}_{plugin_slug}"
PluginId(user_id) == user_id \o "_" \o plugin_slug

\* f"{user_id}_{plugin_slug}_{module_data['name']}"
ModuleId(user_id, name) == user_id \o "_" \o plugin_slug \o "_" \o name

\* Fault seeded for C1: the row is stored under the plugin's display name
\* where the lookups use the slug.
PluginRowUnderDisplayName(user_id) ==
    [id |-> PluginId(user_id), user_id |-> user_id, plugin_slug |-> "OpenAI Plugin",
     version |-> plugin_version, config_fields |-> json_dumps(EmptyDict)]

\* The row _create_database_records inserts into plugin (the columns the
\* other statements read).
PluginRow(user_id) ==
    [id |-> PluginId(user_id), user_id |-> user_id, plugin_slug |-> plugin_slug,
     version |-> plugin_version, config_fields |-> json_dumps(EmptyDict)]

\* The row _create_database_records inserts into module for one descriptor.
ModuleRow(user_id, name) ==
    [id |-> ModuleId(user_id, name), plugin_id |-> PluginId(user_id),
     user_id |-> user_id, name |-> name,
     config_fields |-> json_dumps(ModuleConfigFields(name))]

\* fetchone(): the first row of the result, None when there is none.
HasRow(rows) == rows # {}
FetchOne(rows) == CHOOSE r \in rows : TRUE

\* What _check_existing_plugin makes of the SELECT's outcome q.
ExistingPlugin(q) ==
    IF q.raised
    THEN Return(q.db, [exists |-> FALSE, error |-> q.error])
    ELSE IF HasRow(q.ret)
    THEN Return(q.db, [exists |-> TRUE, plugin_id |-> FetchOne(q.ret).id,
                       plugin_info |-> [id |-> FetchOne(q.ret).id,
                                        version |-> FetchOne(q.ret).version]])
    ELSE Return(q.db, [exists |-> FALSE])

_check_existing_plugin(d, user_id) == ExistingPlugin(select_plugin(d, user_id, plugin_slug))

\* The loop over self.module_data from descriptor i on: one INSERT per
\* descriptor, the first that raises ends the loop.  ret is modules_created.
RECURSIVE InsertModules(_, _, _, _)
InsertModules(d, user_id, i, created) ==
    IF i > Len(ModuleNames)
    THEN Return(d, created)
    ELSE Then(insert_module(d, ModuleRow(user_id, ModuleNames[i])),
              LAMBDA s : InsertModules(s.db, user_id, i + 1,
                                       Append(created, ModuleId(user_id, ModuleNames[i]))))

\* The try block of _create_database_records: the inserts, then the commit.
CreateRows(d, user_id) ==
    Then(Then(insert_plugin(d, PluginRow(user_id)),
              LAMBDA s : InsertModules(s.db, user_id, 1, <<>>)),
         LAMBDA s : KeepRet(commit(s.db), s.ret))

\* The except branch of the two writers: the rollback rb, then the failure
\* result carrying the error e (a raising rollback leaves the function).
RolledBack(rb, e) == IF rb.raised THEN rb ELSE Return(rb.db, Failure(e))

\* Fault seeded for C24: a failed create returns without the rollback.
CreateOutcomeWithoutRollback(s, user_id) ==
    IF s.raised
    THEN Return(s.db, Failure(s.error))
    ELSE Return(s.db, [success |-> TRUE, plugin_id |-> PluginId(user_id),
                       modules_created |-> s.ret])

\* Fault seeded for C23: the plugin id returned is the slug alone.
CreateOutcomeWithSlugId(s, user_id) ==
    IF s.raised
    THEN RolledBack(rollback(s.db), s.error)
    ELSE Return(s.db, [success |-> TRUE, plugin_id |-> plugin_slug,
                       modules_created |-> s.ret])

\* What _create_database_records returns for the outcome s of its try block.
CreateOutcome(s, user_id) ==
    IF s.raised
    THEN RolledBack(rollback(s.db), s.error)
    ELSE Return(s.db, [success |-> TRUE, plugin_id |-> PluginId(user_id),
                       modules_created |-> s.ret])

_create_database_records(d, user_id) == CreateOutcome(CreateRows(d, user_id), user_id)

\* The two DELETE statements: module rows first, then the plugin row.
WithRowcount(c, deleted) ==
    IF c.raised THEN c ELSE Return(c.db, [deleted_modules |-> deleted, rowcount |-> c.ret])

DeleteRows(d, user_id, plugin_id) ==
    Then(delete_modules(d, plugin_id, user_id),
         LAMBDA s : WithRowcount(delete_plugin_row(s.db, plugin_id, user_id), s.ret))

\* Fault seeded for C17: the deletes are not committed.
DeleteWithoutCommit(s) == s

\* The commit, which is reached only when the plugin DELETE hit a row.
DeleteCommit(s) ==
    IF s.raised \/ s.ret.rowcount = 0 THEN s ELSE KeepRet(commit(s.db), s.ret)

\* What _delete_database_records returns for the outcome s of its try block.
DeleteOutcome(s) ==
    IF s.raised
    THEN RolledBack(rollback(s.db), s.error)
    ELSE IF s.ret.rowcount = 0
    THEN Return(s.db, Failure("Plugin not found or not owned by user"))
    ELSE Return(s.db, [success |-> TRUE, deleted_modules |-> s.ret.deleted_modules])

_delete_database_records(d, user_id, plugin_id) ==
    DeleteOutcome(DeleteCommit(DeleteRows(d, user_id, plugin_id)))

\* A dict of module configurations is kept with its insertion order: a
\* sequence of <<module name, configuration>> pairs with distinct names.
DictKeys(md) == {md[i][1] : i \in 1..Len(md)}
DictGet(md, name) == md[CHOOSE i \in 1..Len(md) : md[i][1] = name][2]
AsMapping(md) == [n \in DictKeys(md) |-> DictGet(md, n)]

\* What _export_user_data returns when it cannot read.
MinimalUserData(user_id) ==
    [user_id |-> user_id, plugin_slug |-> plugin_slug, version |-> plugin_version,
     user_config |-> EmptyDict, module_configs |-> <<>>]

\* json.loads guarded by except (json.JSONDecodeError, TypeError): {} on failure.
LoadsOrEmpty(t) == IF json_loads_ok(t) THEN json_loads(t) ELSE EmptyDict

\* user_config as read from the plugin rows fetched.
ExportedUserConfig(rows) ==
    IF HasRow(rows) /\ Truthy(FetchOne(rows).config_fields)
    THEN LoadsOrEmpty(FetchOne(rows).config_fields)
    ELSE EmptyDict

\* fetchall() then the loop over the module rows from descriptor i on (rows
\* come back in the order they were inserted, the order of module_data).
RECURSIVE ExportedModuleConfigs(_, _, _)
ExportedModuleConfigs(rows, i, acc) ==
    IF i > Len(ModuleNames)
    THEN acc
    ELSE ExportedModuleConfigs(rows, i + 1,
            IF \E r \in rows : r.name = ModuleNames[i] /\ Truthy(r.config_fields)
            THEN Append(acc, <<ModuleNames[i],
                              LoadsOrEmpty(FetchOne({r \in rows : r.name = ModuleNames[i]}).config_fields)>>)
            ELSE acc)

\* Fault seeded for C7: the module rows fetched are not put in the result.
ExportOutcomeWithoutModules(q1, q2, user_id) ==
    IF q1.raised
    THEN Return(q1.db, MinimalUserData(user_id))
    ELSE IF q2.raised
    THEN Return(q2.db, MinimalUserData(user_id))
    ELSE Return(q2.db, [MinimalUserData(user_id) EXCEPT
                          !.user_config = ExportedUserConfig(q1.ret)])

\* What _export_user_data returns for the outcomes q1, q2 of its two SELECTs.
ExportOutcome(q1, q2, user_id) ==
    IF q1.raised
    THEN Return(q1.db, MinimalUserData(user_id))
    ELSE IF q2.raised
    THEN Return(q2.db, MinimalUserData(user_id))
    ELSE Return(q2.db, [MinimalUserData(user_id) EXCEPT
                          !.user_config = ExportedUserConfig(q1.ret),
                          !.module_configs = ExportedModuleConfigs(q2.ret, 1, <<>>)])

\* The second SELECT runs on the session the first one left.
ExportSelects(q1, user_id) ==
    ExportOutcome(q1, select_modules(q1.db, PluginId(user_id), user_id), user_id)

_export_user_data(d, user_id) == ExportSelects(select_plugin(d, user_id, plugin_slug), user_id)

\* Fault seeded for C6: the module UPDATE is keyed by the plugin id.
RECURSIVE ImportModulesUnderPluginId(_, _, _, _)
ImportModulesUnderPluginId(d, user_id, md, i) ==
    IF i > Len(md)
    THEN Return(d, 0)
    ELSE Then(update_module_config(d, md[i][1], PluginId(user_id),
                                   user_id, json_dumps(md[i][2])),
              LAMBDA s : ImportModulesUnderPluginId(s.db, user_id, md, i + 1))

\* The loop over user_data['module_configs'].items() from entry i on: one
\* UPDATE per entry; a raise leaves the loop (and the enclosing try).
RECURSIVE ImportModules(_, _, _, _)
ImportModules(d, user_id, md, i) ==
    IF i > Len(md)
    THEN Return(d, 0)
    ELSE Then(update_module_config(d, md[i][1], ModuleId(user_id, md[i][1]),
                                   user_id, json_dumps(md[i][2])),
              LAMBDA s : ImportModules(s.db, user_id, md, i + 1))

\* if user_data.get('user_config'): the UPDATE of the plugin row.
ImportUserConfig(d, user_id, user_data) ==
    IF DOMAIN user_data.user_config # {}
    THEN update_plugin_config(d, PluginId(user_id), user_id,
                              json_dumps(user_data.user_config))
    ELSE Return(d, 0)

\* if user_data.get('module_configs'): the UPDATEs of the module rows.
ImportModuleConfigs(s, user_id, user_data) ==
    IF Len(user_data.module_configs) > 0
    THEN ImportModules(s.db, user_id, user_data.module_configs, 1)
    ELSE s

\* Returns None; the except branch swallows whatever was raised.
Swallow(s) == Return(s.db, "None")

_import_user_data(d, user_id, user_data) ==
    Swallow(Then(ImportUserConfig(d, user_id, user_data),
                 LAMBDA s : ImportModuleConfigs(s, user_id, user_data)))

----------------------------------------------------------------------------
(* File Stager.  A directory tree is the set of its entries              *)
(* [path, kind, content]: path is the sequence of segments relative to   *)
(* the root, kind is "file" or "dir", content is what the stager reads   *)
(* of an entry: size is its st_size; json tells what json.load makes of  *)
(* its text ("invalid": JSONDecodeError, "object": a dict, "array": a    *)
(* list, "string": a str, "scalar": a number, true, false or null);      *)
(* fields is the set of names x for which `x in value` holds of the      *)
(* value loaded: the keys of a dict, the elements of a list, the         *)
(* substrings of a str.                                                  *)

NoContent == [size |-> 0, json |-> "invalid", fields |-> {}]

File(path, content) == [path |-> path, kind |-> "file", content |-> content]
Dir(path) == [path |-> path, kind |-> "dir", content |-> NoContent]

\* A directory whose st_size is n (what stat reports for a directory
\* depends on the file system).
DirOfSize(path, n) == [path |-> path, kind |-> "dir", content |-> [NoContent EXCEPT !.size = n]]

Exists(tree, path) == \E e \in tree : e.path = path
IsFile(tree, path) == \E e \in tree : e.path = path /\ e.kind = "file"
IsDir(tree, path) == \E e \in tree : e.path = path /\ e.kind = "dir"
Entry(tree, path) == CHOOSE e \in tree : e.path = path

RECURSIVE PathStr(_)
PathStr(path) ==
    IF Len(path) = 0 THEN ""
    ELSE IF Len(path) = 1 THEN path[1]
    ELSE path[1] \o "/" \o PathStr(Tail(path))

\* The stems the names of the model's files are built from: str.endswith is
\* decided by looking for a stem that completes the suffix to the name.
NameStems == {"", "cache", "mod", "remoteEntry", "package", "index", "dep"}
EndsWith(name, suffix) == \E stem \in NameStems : name = stem \o suffix

exclude_patterns ==
    {"node_modules", "package-lock.json", ".git", ".gitignore", "__pycache__",
     "*.pyc", ".DS_Store", "Thumbs.db"}

\* pattern.replace('*', '') of the patterns that contain '*'.
StarPatternSuffixes == {".pyc"}

should_copy(path) ==
    /\ \A i \in 1..Len(path) : path[i] \notin exclude_patterns
    /\ \A suffix \in StarPatternSuffixes : ~EndsWith(path[Len(path)], suffix)

\* The directories target_path.parent.mkdir(parents=True) creates for a path.
ParentDirs(path) == {Dir(SubSeq(path, 1, n)) : n \in 1..(Len(path) - 1)}

SelfPath == <<"lifecycle_manager.py">>

\* The entries of the recursive walk that end up in the target: not the
\* script itself, not excluded, and copied without a per-entry error.
StagedEntries(src, faults) ==
    {e \in src : /\ e.path # SelfPath
                 /\ should_copy(e.path)
                 /\ ("copy_" \o PathStr(e.path)) \notin faults}

\* The script's own copy after the walk (shutil.copy2 of Path(__file__)).
StagedSelf(src, faults) ==
    {e \in src : e.path = SelfPath /\ ("copy_" \o PathStr(e.path)) \notin faults}

\* tree with the entries of new written over it.
Overwrite(tree, new) == {e \in tree : ~Exists(new, e.path)} \cup new

\* What the walk leaves in the target and returns, for the entries staged.
CopyResult(tgt, staged, self) ==
    [target |-> Overwrite(tgt, staged \cup self \cup
                    {p \in UNION {ParentDirs(e.path) : e \in {x \in staged : x.kind = "file"}} :
                        ~Exists(staged, p.path)}),
     ret |-> [success |-> TRUE,
              copied_files |-> {e.path : e \in {x \in staged \cup self : x.kind = "file"}}]]

_copy_plugin_files_impl(src, tgt, faults) ==
    IF "rglob" \in faults
    THEN [target |-> tgt, ret |-> Failure("OSError")]
    ELSE CopyResult(tgt, StagedEntries(src, faults), StagedSelf(src, faults))

ManifestPath == <<"package.json">>
BundlePath == <<"dist", "remoteEntry.js">>
required_files == <<ManifestPath, BundlePath>>
required_fields == <<"name", "version">>

\* The checks on package.json once both required paths exist.  open() of a
\* directory and `field not in package_data` on a scalar raise what the
\* inner except does not name: the outer except Exception returns it.
ManifestChecked(manifest, absent, bundle) ==
    IF manifest.kind = "dir"
    THEN [valid |-> FALSE, error |-> "IsADirectoryError"]
    ELSE IF manifest.content.json = "invalid"
    THEN [valid |-> FALSE, error |-> "Invalid or missing package.json"]
    ELSE IF manifest.content.json = "scalar"
    THEN [valid |-> FALSE, error |-> "TypeError"]
    ELSE IF Len(absent) > 0
    THEN [valid |-> FALSE, error |-> "package.json missing required field",
          field |-> absent[1]]
    ELSE IF bundle.content.size = 0
    THEN [valid |-> FALSE, error |-> "Bundle file (remoteEntry.js) is empty"]
    ELSE [valid |-> TRUE]

\* The required fields `field not in package_data` reports, in order.
AbsentFields(manifest) ==
    SelectSeq(required_fields, LAMBDA f : f \notin manifest.content.fields)

\* The required files that do not exist, in order.
MissingFiles(dir) == SelectSeq(required_files, LAMBDA f : ~Exists(dir, f))

_validate_installation_impl(dir) ==
    IF Len(MissingFiles(dir)) > 0
    THEN [valid |-> FALSE, error |-> "Missing required files", missing |-> MissingFiles(dir)]
    ELSE ManifestChecked(Entry(dir, ManifestPath),
                         AbsentFields(Entry(dir, ManifestPath)),
                         Entry(dir, BundlePath))

AssetsPath == <<"assets">>

\* health_info as _get_plugin_health_impl fills it in.
HealthInfo(dir) ==
    [bundle_exists |-> Exists(dir, BundlePath),
     bundle_size |-> IF Exists(dir, BundlePath) THEN Entry(dir, BundlePath).content.size ELSE 0,
     package_json_valid |-> /\ Exists(dir, ManifestPath)
                            /\ Entry(dir, ManifestPath).content.json # "invalid",
     assets_present |-> IsDir(dir, AssetsPath)]

\* Fault seeded for C12: the assets directory is required as well.
HealthOfWithAssets(info) ==
    [healthy |-> /\ info.bundle_exists
                 /\ info.bundle_size > 0
                 /\ info.package_json_valid
                 /\ info.assets_present,
     details |-> info]

\* is_healthy and the result returned.
HealthOf(info) ==
    [healthy |-> info.bundle_exists /\ info.bundle_size > 0 /\ info.package_json_valid,
     details |-> info]

\* open() of a directory raises IsADirectoryError, which the inner except
\* does not name: the outer except Exception returns it.
_get_plugin_health_impl(dir) ==
    IF IsDir(dir, ManifestPath)
    THEN [healthy |-> FALSE, details |-> [error |-> "IsADirectoryError"]]
    ELSE HealthOf(HealthInfo(dir))

----------------------------------------------------------------------------
(* Lifecycle Orchestrator.  An orchestrator operation takes the active     *)
(* sets and the session and returns both with its return value, or with    *)
(* raised = TRUE and the error when an exception leaves it.                *)

Done(act, d, r) == [active |-> act, db |-> d, raised |-> FALSE, ret |-> r]

\* What _perform_user_installation makes of the outcome r of
\* _create_database_records (try/except Exception around it).
InstallationResult(r) ==
    IF r.raised
    THEN Return(r.db, Failure(r.error))
    ELSE IF ~r.ret.success
    THEN r
    ELSE Return(r.db, [success |-> TRUE, plugin_id |-> r.ret.plugin_id,
                       modules_created |-> r.ret.modules_created])

_perform_user_installation(d, user_id) ==
    InstallationResult(_create_database_records(d, user_id))

\* What _perform_user_uninstallation makes of the outcome r of
\* _delete_database_records for the plugin found.
UninstallationResult(r, plugin_id) ==
    IF r.raised
    THEN Return(r.db, Failure(r.error))
    ELSE IF ~r.ret.success
    THEN r
    ELSE Return(r.db, [success |-> TRUE, plugin_id |-> plugin_id,
                       deleted_modules |-> r.ret.deleted_modules])

\* _perform_user_uninstallation after its existence check c.
UninstallFound(c, user_id) ==
    IF ~c.ret.exists
    THEN Return(c.db, Failure("Plugin not found for user"))
    ELSE UninstallationResult(_delete_database_records(c.db, user_id, c.ret.plugin_id),
                              c.ret.plugin_id)

_perform_user_uninstallation(d, user_id) ==
    UninstallFound(_check_existing_plugin(d, user_id), user_id)

\* Fault seeded for C4: the user is added whatever the result.
InstalledWhateverResult(act, m, user_id, r) ==
    Done([act EXCEPT ![m] = @ \cup {user_id}], r.db, r.ret)

\* if result['success']: self.active_users.add(user_id)
Installed(act, m, user_id, r) ==
    IF r.ret.success
    THEN Done([act EXCEPT ![m] = @ \cup {user_id}], r.db, r.ret)
    ELSE Done(act, r.db, r.ret)

\* Fault seeded for C3: no check of active_users before installing.
install_for_user_unchecked(act, d, m, user_id) ==
    Installed(act, m, user_id, _perform_user_installation(d, user_id))

install_for_user(act, d, m, user_id) ==
    IF user_id \in act[m]
    THEN Done(act, d, Failure("Plugin already installed for user"))
    ELSE Installed(act, m, user_id, _perform_user_installation(d, user_id))

\* Fault seeded for C18: the user is discarded whatever the result.
UninstalledWhateverResult(act, m, user_id, r) ==
    Done([act EXCEPT ![m] = @ \ {user_id}], r.db, r.ret)

\* Fault seeded for C2: the user stays in active_users after the uninstall.
UninstalledStillActive(act, m, user_id, r) == Done(act, r.db, r.ret)

\* if result['success']: self.active_users.discard(user_id)
Uninstalled(act, m, user_id, r) ==
    IF r.ret.success
    THEN Done([act EXCEPT ![m] = @ \ {user_id}], r.db, r.ret)
    ELSE Done(act, r.db, r.ret)

uninstall_for_user(act, d, m, user_id) ==
    IF user_id \notin act[m]
    THEN Done(act, d, Failure("Plugin not installed for user"))
    ELSE Uninstalled(act, m, user_id, _perform_user_uninstallation(d, user_id))

\* update_for_user is the host's base-class method (not in the minimal base
\* class): export, uninstall the old version, install through the new
\* version's manager, import.
UpdateImport(ins, user_id, user_data) ==
    IF ~ins.ret.success
    THEN ins
    ELSE Done(ins.active, _import_user_data(ins.db, user_id, user_data).db,
              [success |-> TRUE, plugin_id |-> ins.ret.plugin_id,
               modules_created |-> ins.ret.modules_created])

UpdateInstall(un, user_id, new, user_data) ==
    IF ~un.ret.success
    THEN un
    ELSE UpdateImport(install_for_user(un.active, un.db, new, user_id), user_id, user_data)

UpdateUninstall(act, ex, m, user_id, new) ==
    UpdateInstall(uninstall_for_user(act, ex.db, m, user_id), user_id, new, ex.ret)

update_for_user(act, d, m, user_id, new) ==
    UpdateUninstall(act, _export_user_data(d, user_id), m, user_id, new)

----------------------------------------------------------------------------
(* The public (compatibility) operations.  Each is its body inside         *)
(* try/except Exception: Catch turns a raise into the failure result.  A   *)
(* public operation also returns the shared directory it staged into.      *)

Catch(r, OnError(_)) ==
    IF r.raised
    THEN [active |-> r.active, db |-> r.db, target |-> r.target, raised |-> FALSE,
          ret |-> OnError(r.error)]
    ELSE r

\* An orchestrator result with the shared directory as it is left.

Staged(r, tgt) ==
    [active |-> r.active, db |-> r.db, target |-> tgt, raised |-> r.raised, ret |-> r.ret]

StatusError(e) == [exists |-> FALSE, status |-> "error", error |-> e]

\* install_plugin after the copy cp: the copy's failure is returned as it is.
InstallStaged(act, d, cp, m, user_id) ==
    IF ~cp.ret.success
    THEN Staged(Done(act, d, cp.ret), cp.target)
    ELSE Staged(install_for_user(act, d, m, user_id), cp.target)

\* The try block of install_plugin: mkdir, copy, install_for_user.
install_plugin_try(act, d, src, tgt, m, user_id) ==
    IF "mkdir" \in d.faults
    THEN [active |-> act, db |-> d, target |-> tgt, raised |-> TRUE, error |-> "OSError"]
    ELSE InstallStaged(act, d, _copy_plugin_files_impl(src, tgt, d.faults), m, user_id)

\* Fault seeded for C9: install_plugin without its except branch.
install_plugin_uncaught(act, d, src, tgt, m, user_id) ==
    install_plugin_try(act, d, src, tgt, m, user_id)

install_plugin(act, d, src, tgt, m, user_id) ==
    Catch(install_plugin_try(act, d, src, tgt, m, user_id), Failure)

delete_plugin(act, d, tgt, m, user_id) ==
    Catch(Staged(uninstall_for_user(act, d, m, user_id), tgt), Failure)

\* get_plugin_status after its existence check c.
StatusOf(act, c, m, user_id) ==
    IF ~c.ret.exists
    THEN Done(act, c.db, [exists |-> FALSE, status |-> "not_installed"])
    ELSE Done(act, c.db, [exists |-> TRUE,
                          status |-> IF user_id \in act[m] THEN "healthy" ELSE "inactive",
                          plugin_id |-> c.ret.plugin_id,
                          plugin_info |-> c.ret.plugin_info,
                          files_exist |-> TRUE])

get_plugin_status(act, d, tgt, m, user_id) ==
    Catch(Staged(StatusOf(act, _check_existing_plugin(d, user_id), m, user_id), tgt),
          StatusError)

\* The try block of update_plugin.  self.update_for_user is not defined by
\* the minimal base class: the call raises AttributeError unless the host's
\* base class is the one imported.
update_plugin_try(act, d, tgt, m, user_id, new) ==
    IF "update_for_user" \in d.faults
    THEN [active |-> act, db |-> d, target |-> tgt, raised |-> TRUE,
          error |-> "AttributeError"]
    ELSE Staged(update_for_user(act, d, m, user_id, new), tgt)

update_plugin(act, d, tgt, m, user_id, new) ==
    Catch(update_plugin_try(act, d, tgt, m, user_id, new), Failure)

\* The instance a module-level function constructs for one call:
\* OpenAILifecycleManager(plugins_base_dir), whose active_users is empty.
NewManager == "manager"

WithNewManager(act) ==
    [m \in DOMAIN act \cup {NewManager} |-> IF m = NewManager THEN {} ELSE act[m]]

\* The result r of the call, the instance constructed for it dropped.
Dropped(r) == [r EXCEPT !.active = [m \in DOMAIN @ \ {NewManager} |-> @[m]]]

\* The module-level delete_plugin(user_id, db).
delete_plugin_function(act, d, tgt, user_id) ==
    Dropped(delete_plugin(WithNewManager(act), d, tgt, NewManager, user_id))

----------------------------------------------------------------------------
(* Inputs of the operations *)

StatusName == ModuleNames[1]
ChatName == ModuleNames[2]

\* A module name no descriptor (and so no stored row) has.
GhostName == "ComponentGhost"

\* A configuration a user has set.
Dark == [theme |-> "dark"]

UserData(user_id, user_config, module_configs) ==
    [MinimalUserData(user_id) EXCEPT !.user_config = user_config,
                                      !.module_configs = module_configs]

\* The configurations handed to _import_user_data: <<user_config, module_configs>>.
ImportConfigs(watch) ==
    { <<Dark, << <<StatusName, Dark>> >> >>, <<EmptyDict, <<>> >> }
    \cup IF watch
         THEN { <<Dark, << <<StatusName, Dark>>, <<ChatName, EmptyDict>> >> >>,
                <<Dark, << <<GhostName, Dark>> >> >>,
                <<EmptyDict, << <<ChatName, Dark>> >> >>,
                <<Dark, <<>> >> }
         ELSE {}

\* The calls that can raise, by operation.
BundleCopy == "copy_" \o PathStr(BundlePath)
InstallPoints == {"insert_plugin", "insert_module_" \o StatusName,
                  "insert_module_" \o ChatName, "commit"}
DeletePoints == {"select_plugin", "delete_module", "delete_plugin", "commit"}
ExportPoints == {"select_plugin", "select_modules"}
ImportPoints == {"update_plugin", "update_module_" \o StatusName,
                 "update_module_" \o ChatName}

\* What can go wrong during one operation: nothing, one call, or one call
\* and the rollback that follows it.
FaultSets(points, rollbacks) ==
    {{}} \cup {{x} : x \in points} \cup {{x, "rollback"} : x \in rollbacks}

\* An operation under observation is tried with every fault set of its kind;
\* the operations that lead up to it fail only in the ways that leave the
\* store in a different state.
InstallFaults(watch) ==
    IF watch
    THEN FaultSets(InstallPoints \cup {"mkdir", "rglob", BundleCopy}, InstallPoints)
    ELSE {{}, {"commit", "rollback"}}

DeleteFaults(watch) ==
    IF watch
    THEN FaultSets(DeletePoints, DeletePoints \ {"select_plugin"})
    ELSE {{}, {"commit", "rollback"}}

StatusFaults(watch) == IF watch THEN FaultSets({"select_plugin"}, {}) ELSE {{}}

ExportFaults(watch) == IF watch THEN FaultSets(ExportPoints, {}) ELSE {{}}

ImportFaults(watch) ==
    IF watch THEN FaultSets(ImportPoints, {}) ELSE {{}}

UpdateFaults(watch) ==
    IF watch
    THEN FaultSets(ExportPoints \cup DeletePoints \cup InstallPoints \cup ImportPoints
                       \cup {"update_for_user"},
                   {"delete_plugin", "insert_plugin", "commit"})
    ELSE {{}, {"insert_plugin"}}

----------------------------------------------------------------------------
(* State machine *)

\* The plugin's own source directory: manifest, bundle, the script, and
\* development artifacts the stager excludes.
Manifest(json, fields) == [size |-> 1, json |-> json, fields |-> fields]
WellFormedManifest == Manifest("object", {"name", "version"})
Script == [size |-> 1, json |-> "invalid", fields |-> {}]

PluginSource ==
    { File(ManifestPath, WellFormedManifest),
      Dir(<<"dist">>),
      File(BundlePath, Script),
      File(SelfPath, Script),
      Dir(<<"node_modules">>),
      File(<<"node_modules", "dep.js">>, Script),
      File(<<"cache.pyc">>, Script) }

Session(tables) == [committed |-> tables, working |-> tables, calls |-> <<>>, faults |-> {}]

Begin(d, faults) == [d EXCEPT !.calls = <<>>, !.faults = faults]
End(d) == [d EXCEPT !.calls = <<>>, !.faults = {}]

\* No operation is under observation yet.
Idle == [op |-> "none"]

\* No calls are interleaved.
NoCalls == <<>>

\* The record of the operation under observation: what was called, with
\* what, in which state, what it returned and which store calls it issued.
Record(op, m, user_id, arg, faults, r) ==
    [op |-> op, mgr |-> m, user |-> user_id, arg |-> arg, faults |-> faults,
     raised |-> r.raised, ret |-> IF r.raised THEN [exception |-> r.error] ELSE r.ret,
     calls |-> r.db.calls,
     before |-> [active |-> active, db |-> db, target |-> target]]

\* last' when the operation is observed (watch) or not.  A run ends with
\* the operation it observes.
Observe(watch, rec) == last' = IF watch THEN rec ELSE last

\* completed after a call of install_for_user / uninstall_for_user by m that
\* returned r.
AfterInstall(g, m, user_id, r) ==
    IF ~r.raised /\ r.ret.success THEN [g EXCEPT ![m] = @ \cup {user_id}] ELSE g

AfterUninstall(g, m, user_id, r) ==
    IF ~r.raised /\ r.ret.success THEN [g EXCEPT ![m] = @ \ {user_id}] ELSE g

\* completed after update_for_user: its uninstall_for_user returned un, and
\* only then install_for_user is called on the new manager.
AfterUpdate(g, m, user_id, new, un) ==
    IF un.ret.success
    THEN AfterInstall(AfterUninstall(g, m, user_id, un), new, user_id,
                      install_for_user(un.active, un.db, new, user_id))
    ELSE g

Init ==
    /\ active = [m \in Managers |-> {}]
    /\ completed = [m \in Managers |-> {}]
    /\ db = Session(EmptyTables)
    /\ source = PluginSource
    /\ target = {}
    /\ last = Idle
    /\ inflight = NoCalls

InstallPlugin(m, user_id, faults, watch) ==
    LET r == install_plugin(active, Begin(db, faults), source, target, m, user_id)
    IN  /\ active' = r.active
        /\ db' = End(r.db)
        /\ target' = r.target
        /\ completed' = AfterInstall(completed, m, user_id, r)
        /\ Observe(watch, Record("install", m, user_id, MinimalUserData(user_id), faults, r))
        /\ UNCHANGED <<source, inflight>>

DeletePlugin(m, user_id, faults, watch) ==
    LET r == delete_plugin(active, Begin(db, faults), target, m, user_id)
    IN  /\ active' = r.active
        /\ db' = End(r.db)
        /\ completed' = AfterUninstall(completed, m, user_id, r)
        /\ Observe(watch, Record("delete", m, user_id, MinimalUserData(user_id), faults, r))
        /\ UNCHANGED <<source, target, inflight>>

GetPluginStatus(m, user_id, faults, watch) ==
    LET r == get_plugin_status(active, Begin(db, faults), target, m, user_id)
    IN  /\ active' = r.active
        /\ db' = End(r.db)
        /\ Observe(watch, Record("status", m, user_id, MinimalUserData(user_id), faults, r))
        /\ UNCHANGED <<source, target, completed, inflight>>

UpdatePlugin(m, user_id, new, faults, watch) ==
    LET r == update_plugin(active, Begin(db, faults), target, m, user_id, new)
    IN  /\ active' = r.active
        /\ db' = End(r.db)
        /\ completed' =
              IF "update_for_user" \in faults
              THEN completed
              ELSE AfterUpdate(completed, m, user_id, new,
                      uninstall_for_user(active,
                          _export_user_data(Begin(db, faults), user_id).db, m, user_id))
        /\ Observe(watch, Record("update", m, user_id, MinimalUserData(user_id), faults, r))
        /\ UNCHANGED <<source, target, inflight>>

ExportUserData(m, user_id, faults, watch) ==
    LET r == _export_user_data(Begin(db, faults), user_id)
    IN  /\ db' = End(r.db)
        /\ Observe(watch, Record("export", m, user_id, MinimalUserData(user_id), faults, r))
        /\ UNCHANGED <<active, source, target, completed, inflight>>

ImportUserData(m, user_id, user_data, faults, watch) ==
    LET r == _import_user_data(Begin(db, faults), user_id, user_data)
    IN  /\ db' = End(r.db)
        /\ Observe(watch, Record("import", m, user_id, user_data, faults, r))
        /\ UNCHANGED <<active, source, target, completed, inflight>>

\* The module-level delete_plugin called by a script.
DeletePluginFunction(user_id, faults, watch) ==
    /\ active' = delete_plugin_function(active, Begin(db, faults), target, user_id).active
    /\ db' = End(delete_plugin_function(active, Begin(db, faults), target, user_id).db)
    /\ Observe(watch, Record("delete_function", NewManager, user_id, MinimalUserData(user_id),
                             faults,
                             delete_plugin_function(active, Begin(db, faults), target, user_id)))
    /\ UNCHANGED <<source, target, completed, inflight>>

\* The caller opens a session on a fresh, empty store (a new
\* MockAsyncSession per test).
NewSession ==
    /\ db' = Session(EmptyTables)
    /\ UNCHANGED <<active, source, target, completed, last, inflight>>

Step(watch) ==
    \/ \E m \in Managers, u \in Users, f \in InstallFaults(watch) : InstallPlugin(m, u, f, watch)
    \/ \E m \in Managers, u \in Users, f \in DeleteFaults(watch) : DeletePlugin(m, u, f, watch)
    \/ \E u \in Users, f \in DeleteFaults(watch) : DeletePluginFunction(u, f, watch)
    \/ \E m \in Managers, u \in Users, f \in StatusFaults(watch) : GetPluginStatus(m, u, f, watch)
    \/ \E u \in Users, f \in UpdateFaults(watch) : UpdatePlugin("m1", u, "m2", f, watch)
    \/ \E u \in Users, f \in ExportFaults(watch) : ExportUserData("m1", u, f, watch)
    \/ \E u \in Users, c \in ImportConfigs(watch), f \in ImportFaults(watch) :
            ImportUserData("m1", u, UserData(u, c[1], c[2]), f, watch)

Next ==
    /\ last = Idle
    /\ \/ \E watch \in BOOLEAN : Step(watch)
       \/ NewSession

Spec == Init /\ [][Next]_vars

\* One manager, one store, one session: every operation is a call on the
\* same instance with the same db, one after the other, and any one call of
\* an operation may raise (a rollback does not).  last is the record of the
\* latest operation.
OneManager == "m1"

SerialFaults(points) == FaultSets(points, {})

NextSerial ==
    \/ \E u \in Users, f \in SerialFaults(InstallPoints \cup {"mkdir", "rglob", BundleCopy}) :
            InstallPlugin(OneManager, u, f, TRUE)
    \/ \E u \in Users, f \in SerialFaults(DeletePoints) : DeletePlugin(OneManager, u, f, TRUE)
    \/ \E u \in Users, f \in SerialFaults({"select_plugin"}) :
            GetPluginStatus(OneManager, u, f, TRUE)
    \/ \E u \in Users, f \in SerialFaults(ExportPoints) : ExportUserData(OneManager, u, f, TRUE)
    \/ \E u \in Users, c \in ImportConfigs(FALSE), f \in SerialFaults(ImportPoints) :
            ImportUserData(OneManager, u, UserData(u, c[1], c[2]), f, TRUE)

SpecSerial == Init /\ [][NextSerial]_vars

----------------------------------------------------------------------------
(* The file stager on its own: _copy_plugin_files_impl and                 *)
(* _validate_installation_impl over the directories they can be given.     *)

\* The largest bundle file of the model, in bytes.
MaxBundleSize == 2

\* What can be at package.json: nothing, a directory, an empty or
\* unparseable file, or JSON text of each kind.
ManifestTexts ==
    {[NoContent EXCEPT !.size = n] : n \in 0..1}
    \cup {Manifest(k, F) : k \in {"object", "array", "string"},
                           F \in SUBSET {"name", "version"}}
    \cup {Manifest("scalar", {})}

ManifestEntries ==
    {{}, {DirOfSize(ManifestPath, 1)}} \cup {{File(ManifestPath, c)} : c \in ManifestTexts}

\* What can be at dist/remoteEntry.js: nothing (with or without dist), a
\* file of each size, or a directory.
BundleEntries ==
    {{}, {Dir(<<"dist">>)}}
    \cup {{Dir(<<"dist">>), File(BundlePath, [NoContent EXCEPT !.size = n])} :
              n \in 0..MaxBundleSize}
    \cup {{Dir(<<"dist">>), DirOfSize(BundlePath, n)} : n \in 0..1}

\* The script and the development artifacts next to it.
OtherEntries ==
    {{File(SelfPath, Script)},
     {File(SelfPath, Script), Dir(<<"node_modules">>),
      File(<<"node_modules", "dep.js">>, Script), File(<<"cache.pyc">>, Script)},
     {File(SelfPath, Script), Dir(<<"src">>), File(<<"src", "index.js">>, Script),
      Dir(<<"src", "__pycache__">>), File(<<"src", "__pycache__", "mod.pyc">>, Script),
      File(<<"package-lock.json">>, Script),
      Dir(<<"mod.pyc">>), File(<<"mod.pyc", "dep.js">>, Script),
      Dir(AssetsPath)}}

SourceTrees ==
    {m \cup b \cup o : m \in ManifestEntries, b \in BundleEntries, o \in OtherEntries}

StageFaults == {{}, {"rglob"}, {BundleCopy}}

InitStage ==
    /\ active = [m \in Managers |-> {}]
    /\ completed = [m \in Managers |-> {}]
    /\ db = Session(EmptyTables)
    /\ source \in SourceTrees
    /\ target = {}
    /\ last = Idle
    /\ inflight = NoCalls

StageFiles(faults, watch) ==
    /\ target' = _copy_plugin_files_impl(source, target, faults).target
    /\ Observe(watch, [op |-> "stage", faults |-> faults,
                       ret |-> _copy_plugin_files_impl(source, target, faults).ret,
                       before |-> [source |-> source, target |-> target]])
    /\ UNCHANGED <<active, db, source, completed, inflight>>

ValidateInstallation(dir) ==
    /\ last' = [op |-> "validate", arg |-> dir, ret |-> _validate_installation_impl(dir)]
    /\ UNCHANGED <<active, db, source, target, completed, inflight>>

GetPluginHealth(dir) ==
    /\ last' = [op |-> "health", arg |-> dir, ret |-> _get_plugin_health_impl(dir)]
    /\ UNCHANGED <<active, db, source, target, completed, inflight>>

NextStage ==
    /\ last = Idle
    /\ \/ \E f \in StageFaults, watch \in BOOLEAN : StageFiles(f, watch)
       \/ \E dir \in {source, target} : ValidateInstallation(dir)
       \/ \E dir \in {source, target} : GetPluginHealth(dir)

SpecStage == InitStage /\ [][NextStage]_vars

----------------------------------------------------------------------------
(* Two calls interleaved on one store handle.  install_for_user and        *)
(* uninstall_for_user are coroutines: a call runs without interruption     *)
(* from one await of a store call to the next, and the other call may run  *)
(* while it is suspended.  A step of a call is what it does from the point *)
(* it is resumed at up to and including the next store call it issues, or  *)
(* up to its return.  No store call fails on its own here: an insert       *)
(* raises only on a duplicate key.                                         *)

Calls == {"c1", "c2"}

\* The user both calls can be about, and a second user for the other call.
RacedUser == "u1"

\* A call that has not started.  pc is the await the call is suspended on
\* ("start" before its first step, "done" after its return); raised, error
\* and value are the outcome of the awaited store call.
NewCall(op, m, user_id) ==
    [op |-> op, mgr |-> m, user |-> user_id, pc |-> "start", i |-> 0,
     raised |-> FALSE, error |-> "", value |-> 0,
     exists |-> FALSE, plugin_id |-> "", deleted |-> 0, rowcount |-> 0,
     log |-> <<>>, ret |-> Failure("")]

\* The call suspended on the store call name (the i-th insert of its kind)
\* whose outcome is r.
Suspended(call, name, i, r) ==
    [call EXCEPT !.pc = name, !.i = i, !.raised = r.raised,
                 !.error = IF r.raised THEN r.error ELSE @,
                 !.value = IF r.raised THEN 0 ELSE r.ret,
                 !.log = Append(@, name)]

\* The call suspended on the SELECT of _check_existing_plugin, which
\* returned r.
Checked(call, r) ==
    [call EXCEPT !.pc = "select_plugin", !.exists = r.ret.exists,
                 !.plugin_id = IF r.ret.exists THEN r.ret.plugin_id ELSE "",
                 !.log = Append(@, "select_plugin")]

\* The call c issues a store call with outcome r and is suspended as next.
Await(c, next, r) ==
    /\ inflight' = [inflight EXCEPT ![c] = next]
    /\ db' = End(r.db)
    /\ UNCHANGED <<active, completed, source, target, last>>

\* The call c returns what install_for_user / uninstall_for_user made (fin)
\* of its result.
Finish(c, fin, done) ==
    /\ inflight' = [inflight EXCEPT ![c] = [@ EXCEPT !.pc = "done", !.ret = fin.ret]]
    /\ active' = fin.active
    /\ completed' = done
    /\ UNCHANGED <<db, source, target, last>>

Rejected(c, e) == Finish(c, Done(active, db, Failure(e)), completed)

\* The insert that follows the i-th module insert (i = 0: the plugin
\* insert), or the commit after the last one.
NextInsert(c, i) ==
    IF i < Len(ModuleNames)
    THEN Await(c, Suspended(inflight[c], "insert_module", i + 1,
                            insert_module(Begin(db, {}),
                                          ModuleRow(inflight[c].user, ModuleNames[i + 1]))),
               insert_module(Begin(db, {}), ModuleRow(inflight[c].user, ModuleNames[i + 1])))
    ELSE Await(c, Suspended(inflight[c], "commit", 0, commit(Begin(db, {}))),
               commit(Begin(db, {})))

\* The except branch of the two writers.
Except(c) ==
    Await(c, Suspended(inflight[c], "rollback", 0, rollback(Begin(db, {}))),
          rollback(Begin(db, {})))

CreatedResult(user_id) ==
    [success |-> TRUE, plugin_id |-> PluginId(user_id),
     modules_created |-> [i \in 1..Len(ModuleNames) |-> ModuleId(user_id, ModuleNames[i])]]

InstallReturns(c, r) ==
    Finish(c, Installed(active, inflight[c].mgr, inflight[c].user, r),
           AfterInstall(completed, inflight[c].mgr, inflight[c].user, r))

UninstallReturns(c, r) ==
    Finish(c, Uninstalled(active, inflight[c].mgr, inflight[c].user, r),
           AfterUninstall(completed, inflight[c].mgr, inflight[c].user, r))

\* install_for_user up to the first INSERT.
StartInstall(c) ==
    /\ inflight[c].op = "install_for_user"
    /\ inflight[c].pc = "start"
    /\ IF inflight[c].user \in active[inflight[c].mgr]
       THEN Rejected(c, "Plugin already installed for user")
       ELSE Await(c, Suspended(inflight[c], "insert_plugin", 0,
                               insert_plugin(Begin(db, {}), PluginRow(inflight[c].user))),
                  insert_plugin(Begin(db, {}), PluginRow(inflight[c].user)))

\* install_for_user resumed after a store call.
ResumeInstall(c) ==
    /\ inflight[c].op = "install_for_user"
    /\ inflight[c].pc \notin {"start", "done"}
    /\ IF inflight[c].pc = "rollback"
       THEN InstallReturns(c, Done(active, db, Failure(inflight[c].error)))
       ELSE IF inflight[c].raised
       THEN Except(c)
       ELSE IF inflight[c].pc = "commit"
       THEN InstallReturns(c, Done(active, db, CreatedResult(inflight[c].user)))
       ELSE NextInsert(c, inflight[c].i)

\* uninstall_for_user up to the SELECT of _check_existing_plugin.
StartUninstall(c) ==
    /\ inflight[c].op = "uninstall_for_user"
    /\ inflight[c].pc = "start"
    /\ IF inflight[c].user \notin active[inflight[c].mgr]
       THEN Rejected(c, "Plugin not installed for user")
       ELSE Await(c, Checked(inflight[c],
                             _check_existing_plugin(Begin(db, {}), inflight[c].user)),
                  _check_existing_plugin(Begin(db, {}), inflight[c].user))

\* uninstall_for_user resumed after the SELECT.
AfterCheck(c) ==
    IF ~inflight[c].exists
    THEN UninstallReturns(c, Done(active, db, Failure("Plugin not found for user")))
    ELSE Await(c, Suspended(inflight[c], "delete_module", 0,
                            delete_modules(Begin(db, {}), inflight[c].plugin_id,
                                           inflight[c].user)),
               delete_modules(Begin(db, {}), inflight[c].plugin_id, inflight[c].user))

\* ... after the DELETE of the module rows: deleted_modules is its rowcount.
AfterModuleDelete(c) ==
    Await(c, [Suspended(inflight[c], "delete_plugin", 0,
                        delete_plugin_row(Begin(db, {}), inflight[c].plugin_id,
                                          inflight[c].user))
                 EXCEPT !.deleted = inflight[c].value],
          delete_plugin_row(Begin(db, {}), inflight[c].plugin_id, inflight[c].user))

\* Fault seeded for C16: the commit is issued whatever the rowcount.
AfterPluginDeleteCommitting(c) ==
    Await(c, [Suspended(inflight[c], "commit", 0, commit(Begin(db, {})))
                 EXCEPT !.rowcount = inflight[c].value],
          commit(Begin(db, {})))

\* ... after the DELETE of the plugin row: no commit when it hit no row.
AfterPluginDelete(c) ==
    IF inflight[c].value = 0
    THEN UninstallReturns(c, Done(active, db,
                                  Failure("Plugin not found or not owned by user")))
    ELSE Await(c, [Suspended(inflight[c], "commit", 0, commit(Begin(db, {})))
                      EXCEPT !.rowcount = inflight[c].value],
               commit(Begin(db, {})))

DeletedResult(call) ==
    [success |-> TRUE, plugin_id |-> call.plugin_id, deleted_modules |-> call.deleted]

ResumeUninstall(c) ==
    /\ inflight[c].op = "uninstall_for_user"
    /\ inflight[c].pc \notin {"start", "done"}
    /\ IF inflight[c].pc = "select_plugin"
       THEN AfterCheck(c)
       ELSE IF inflight[c].pc = "rollback"
       THEN UninstallReturns(c, Done(active, db, Failure(inflight[c].error)))
       ELSE IF inflight[c].raised
       THEN Except(c)
       ELSE IF inflight[c].pc = "delete_module"
       THEN AfterModuleDelete(c)
       ELSE IF inflight[c].pc = "delete_plugin"
       THEN AfterPluginDelete(c)
       ELSE UninstallReturns(c, Done(active, db, DeletedResult(inflight[c])))

\* The rows a completed install of the user leaves.
InstalledTables(user_id) ==
    [plugin |-> {PluginRow(user_id)},
     module |-> {ModuleRow(user_id, ModuleNames[i]) : i \in 1..Len(ModuleNames)}]

\* The calls start on a store with or without the rows of RacedUser, each
\* instance tracking RacedUser or not; c1 is a call of m1 about RacedUser,
\* c2 a call of either instance about either user.  last keeps the state
\* the calls start from.
InitInterleaved ==
    /\ active \in [Managers -> SUBSET {RacedUser}]
    /\ completed = active
    /\ db \in {Session(EmptyTables), Session(InstalledTables(RacedUser))}
    /\ source = PluginSource
    /\ target = {}
    /\ last = [op |-> "interleaved",
               before |-> [active |-> active, db |-> db, target |-> target]]
    /\ inflight \in
         {[c \in Calls |-> IF c = "c1" THEN NewCall(op1, "m1", RacedUser)
                                        ELSE NewCall(op2, m, u)] :
             op1 \in {"install_for_user", "uninstall_for_user"},
             op2 \in {"install_for_user", "uninstall_for_user"},
             m \in Managers, u \in Users}

NextInterleaved ==
    \E c \in Calls :
        \/ StartInstall(c)
        \/ ResumeInstall(c)
        \/ StartUninstall(c)
        \/ ResumeUninstall(c)

SpecInterleaved == InitInterleaved /\ [][NextInterleaved]_vars

----------------------------------------------------------------------------
(* Properties.  A property about an operation is stated on the states in   *)
(* which that operation is the one under observation: last holds its       *)
(* arguments, its return value and the state it started from, and the      *)
(* variables hold the state it left.  What a following call would return   *)
(* is computed from that state.                                            *)

PluginRowsOf(tables, user_id) == {r \in tables.plugin : r.user_id = user_id}
ModuleRowsOf(tables, user_id) == {r \in tables.module : r.user_id = user_id}
NoRowsOf(tables, user_id) ==
    PluginRowsOf(tables, user_id) = {} /\ ModuleRowsOf(tables, user_id) = {}

SameTables(d1, d2) == d1.working = d2.working /\ d1.committed = d2.committed

Observed(op) == last.op = op
Tracked(act, m, user_id) == user_id \in act[m]

\* The state predicates below read the fields of last only where an
\* operation is under observation.
FreshInstall ==
    /\ Observed("install")
    /\ last.ret.success
    /\ ~Tracked(last.before.active, last.mgr, last.user)
    /\ PluginRowsOf(last.before.db.working, last.user) = {}

\* C1: for a user the instance does not track and that has no record in the
\* store, a successful install followed by a status query on the same store
\* handle (its lookup not failing) reports exists = true.
C1_InstallThenStatusExists ==
    FreshInstall =>
        get_plugin_status(active, Begin(db, {}), target, last.mgr, last.user).ret.exists

C1_Witness ==
    /\ FreshInstall
    /\ get_plugin_status(active, Begin(db, {}), target, last.mgr, last.user).ret
         = [exists |-> TRUE, status |-> "healthy", plugin_id |-> PluginId(last.user),
            plugin_info |-> [id |-> PluginId(last.user), version |-> plugin_version],
            files_exist |-> TRUE]

\* The second uninstall r is rejected before it reaches the store.
RejectedUntouched(r) ==
    /\ ~r.raised
    /\ r.ret = Failure("Plugin not installed for user")
    /\ r.db.calls = <<>>
    /\ SameTables(r.db, db)
    /\ r.active = active

\* C2: after a successful uninstall of a user the instance had installed,
\* status reports exists = false, and a second uninstall by the same
\* instance fails with 'Plugin not installed for user' without a statement,
\* commit or rollback, whatever the store would do.
C2_UninstallThenGone ==
    (Observed("delete") /\ last.ret.success) =>
        /\ Tracked(last.before.active, last.mgr, last.user)
        /\ ~get_plugin_status(active, Begin(db, {}), target, last.mgr, last.user).ret.exists
        /\ \A f \in DeleteFaults(TRUE) :
              RejectedUntouched(delete_plugin(active, Begin(db, f), target, last.mgr, last.user))

C2_Witness ==
    /\ Observed("delete")
    /\ last.ret.success
    /\ last.ret.deleted_modules = Len(ModuleNames)
    /\ get_plugin_status(active, Begin(db, {}), target, last.mgr, last.user).ret.status
         = "not_installed"
    /\ delete_plugin(active, Begin(db, {}), target, last.mgr, last.user).ret
         = Failure("Plugin not installed for user")

\* The file operations of install_plugin that come before install_for_user.
StagingPoints == {"mkdir", "rglob"}

\* C3: an install for a user the instance already tracks issues no
\* statement, commit or rollback, leaves the store and the active sets as
\* they were, and (when staging did not fail first) returns 'Plugin already
\* installed for user'.
C3_SecondInstallRejected ==
    (Observed("install") /\ Tracked(last.before.active, last.mgr, last.user)) =>
        /\ ~last.ret.success
        /\ last.calls = <<>>
        /\ SameTables(db, last.before.db)
        /\ active = last.before.active
        /\ (last.faults \cap StagingPoints = {}
              => last.ret = Failure("Plugin already installed for user"))

C3_Witness ==
    /\ Observed("install")
    /\ Tracked(last.before.active, last.mgr, last.user)
    /\ last.faults = {"commit", "rollback"}
    /\ last.ret = Failure("Plugin already installed for user")
    /\ PluginRowsOf(db.working, last.user) # {}

\* C4: a user is in an instance's active set exactly when that instance has
\* completed a successful install for the user and no successful uninstall
\* since, over every sequence of install, uninstall, update, status, export
\* and import calls, failing or not.
C4_ActiveIffInstalled ==
    \A m \in Managers, u \in Users : u \in active[m] <=> u \in completed[m]

\* An update that uninstalled the old version and then failed to install
\* the new one: the user is in neither active set.
C4_Witness ==
    /\ Observed("update")
    /\ ~last.ret.success
    /\ Tracked(last.before.active, last.mgr, last.user)
    /\ \A m \in Managers : last.user \notin active[m] /\ last.user \notin completed[m]
    /\ \E m \in Managers, u \in Users : u \in active[m]

\* The delete that follows the install: its result r and the store it leaves.
DeletedAll(r, user_id) ==
    /\ r.ret.success
    /\ r.ret.deleted_modules = Len(ModuleNames)
    /\ ~_check_existing_plugin(Begin(r.db, {}), user_id).ret.exists
    /\ ModuleRowsOf(r.db.working, user_id) = {}

\* C5: from a store with no rows of the user, a successful install creates
\* exactly one plugin row and one module row per module descriptor and
\* returns as many module identifiers; the delete that follows reports that
\* many deleted modules, after which the existence lookup finds nothing and
\* no module row of the user is left.
C5_CreateThenDelete ==
    (FreshInstall /\ NoRowsOf(last.before.db.working, last.user)) =>
        /\ Cardinality(PluginRowsOf(db.working, last.user)) = 1
        /\ Cardinality(ModuleRowsOf(db.working, last.user)) = Len(ModuleNames)
        /\ Len(last.ret.modules_created) = Len(ModuleNames)
        /\ {last.ret.modules_created[i] : i \in 1..Len(ModuleNames)}
             = {r.id : r \in ModuleRowsOf(db.working, last.user)}
        /\ DeletedAll(delete_plugin(active, Begin(db, {}), target, last.mgr, last.user),
                      last.user)

C5_Witness ==
    /\ FreshInstall
    /\ NoRowsOf(last.before.db.working, last.user)
    /\ PluginRowsOf(db.working, last.user) = {PluginRow(last.user)}
    /\ ModuleRowsOf(db.working, last.user)
         = {ModuleRow(last.user, ModuleNames[i]) : i \in 1..Len(ModuleNames)}
    /\ delete_plugin(active, Begin(db, {}), target, last.mgr, last.user).ret.deleted_modules
         = Len(ModuleNames)

\* What _export_user_data returns on the handle d when no call raises.
Exported(d, user_id) == _export_user_data(Begin(d, {}), user_id).ret

\* An import of last.arg for a user with a plugin record, no call raising.
ImportForInstalled ==
    /\ Observed("import")
    /\ last.faults = {}
    /\ PluginRowsOf(last.before.db.working, last.user) # {}
    /\ \E m \in Managers : Tracked(last.before.active, m, last.user)

ExpectedUserConfig(cfg, prev) ==
    IF DOMAIN cfg.user_config # {} THEN cfg.user_config ELSE prev.user_config

ExpectedModuleConfigs(cfg, prev) ==
    [n \in DictKeys(prev.module_configs) |->
        IF n \in DictKeys(cfg.module_configs)
        THEN DictGet(cfg.module_configs, n)
        ELSE DictGet(prev.module_configs, n)]

StoredModuleConfig(tables, user_id, name) ==
    LoadsOrEmpty((CHOOSE r \in ModuleRowsOf(tables, user_id) : r.name = name).config_fields)

HasModuleRow(tables, user_id, name) ==
    \E r \in ModuleRowsOf(tables, user_id) : r.name = name

\* C7: after a successful update (export, uninstall, install by the new
\* version's manager, import; no store call raising) every module
\* configuration stored for the user before the update is the one stored
\* after it, not the new rows' defaults.
C7_UpdateKeepsModuleConfig ==
    (Observed("update") /\ last.ret.success /\ last.faults = {}) =>
        \A i \in 1..Len(ModuleNames) :
            HasModuleRow(last.before.db.working, last.user, ModuleNames[i]) =>
                /\ HasModuleRow(db.working, last.user, ModuleNames[i])
                /\ StoredModuleConfig(db.working, last.user, ModuleNames[i])
                     = StoredModuleConfig(last.before.db.working, last.user, ModuleNames[i])

C7_Witness ==
    /\ Observed("update")
    /\ last.ret.success
    /\ last.faults = {}
    /\ HasModuleRow(last.before.db.working, last.user, StatusName)
    /\ StoredModuleConfig(last.before.db.working, last.user, StatusName) = Dark
    /\ StoredModuleConfig(db.working, last.user, StatusName) = Dark
    /\ Dark # ModuleConfigFields(StatusName)
    /\ Tracked(active, "m2", last.user)

\* C8 as stated: when validation of the staged directory returns
\* valid = false, the install fails, writes no record and does not add the
\* user to the active set.
C8_InvalidBundleAbortsInstall ==
    (Observed("install") /\ ~_validate_installation_impl(target).valid) =>
        /\ ~last.ret.success
        /\ SameTables(db, last.before.db)
        /\ active = last.before.active

PublicOps == {"install", "delete", "status", "update"}

\* The shape of a public operation's return value.
Structured(op, ret) ==
    IF op = "status"
    THEN /\ "exists" \in DOMAIN ret
         /\ "status" \in DOMAIN ret
         /\ (ret.status = "error" => "error" \in DOMAIN ret)
    ELSE /\ "success" \in DOMAIN ret
         /\ (~ret.success => "error" \in DOMAIN ret)

\* C9: whichever store call (statement, commit, rollback) or file operation
\* raises, install_plugin, delete_plugin, get_plugin_status and
\* update_plugin do not raise: they return a result with its flag, and with
\* an error field when they failed.
C9_NoExceptionEscapes ==
    last.op \in PublicOps => (~last.raised /\ Structured(last.op, last.ret))

\* The rollback raises after the commit has raised, and install_plugin
\* still returns a failure.
C9_Witness ==
    /\ Observed("install")
    /\ last.faults = {"commit", "rollback"}
    /\ ~last.raised
    /\ ~last.ret.success
    /\ "rollback" \in {last.calls[i] : i \in 1..Len(last.calls)}

\* The manifest of dir as C10 describes a good one: a file that parses and
\* has the top-level fields name and version.
ManifestWithNameAndVersion(dir) ==
    /\ IsFile(dir, ManifestPath)
    /\ Entry(dir, ManifestPath).content.json = "object"
    /\ {"name", "version"} \subseteq Entry(dir, ManifestPath).content.fields

\* C10 as stated: validate returns valid = true exactly when manifest and
\* bundle both exist, the manifest parses and has name and version, and the
\* bundle is not of length zero; a missing bundle is named in the error
\* that lists all missing required files; a zero-length bundle (under a
\* manifest that passes) gives the bundle-empty error.
C10_ValidIffWellFormed ==
    Observed("validate") =>
        /\ last.ret.valid <=>
              /\ Exists(last.arg, ManifestPath)
              /\ Exists(last.arg, BundlePath)
              /\ ManifestWithNameAndVersion(last.arg)
              /\ Entry(last.arg, BundlePath).content.size # 0
        /\ ~Exists(last.arg, BundlePath) =>
              /\ last.ret.error = "Missing required files"
              /\ last.ret.missing = MissingFiles(last.arg)
              /\ \E i \in 1..Len(last.ret.missing) : last.ret.missing[i] = BundlePath
        /\ ( /\ Exists(last.arg, BundlePath)
             /\ ManifestWithNameAndVersion(last.arg)
             /\ Entry(last.arg, BundlePath).content.size = 0 )
              => last.ret.error = "Bundle file (remoteEntry.js) is empty"

\* What holds of validate: C10 with "has name and version" read as the
\* `in` test of the code, which a list or a string can pass as well.
ValidIffInTestsPass ==
    Observed("validate") =>
        (last.ret.valid <=>
            /\ Exists(last.arg, ManifestPath)
            /\ Exists(last.arg, BundlePath)
            /\ IsFile(last.arg, ManifestPath)
            /\ Entry(last.arg, ManifestPath).content.json \in {"object", "array", "string"}
            /\ {"name", "version"} \subseteq Entry(last.arg, ManifestPath).content.fields
            /\ Entry(last.arg, BundlePath).content.size # 0)

\* The names the stager is to keep out of the target, and the paths that
\* have such a name or a name ending in .pyc among their segments.
ExclusionNames ==
    {"node_modules", ".git", "__pycache__", "package-lock.json", ".gitignore",
     ".DS_Store", "Thumbs.db"}

UnderExcluded(path) ==
    \E n \in 1..Len(path) : path[n] \in ExclusionNames \/ EndsWith(path[n], ".pyc")

\* C11 as stated: after staging into an empty target, the target has no
\* file or directory with a segment in the exclusion set or with a name
\* ending in .pyc, nor anything nested below such a directory.
C11_NoExcludedEntryStaged ==
    (Observed("stage") /\ last.before.target = {}) =>
        \A e \in target : ~UnderExcluded(e.path)

\* What holds of staging: no entry of the target has a segment in the
\* exclusion set, and no file of the target has a name ending in .pyc.
StagedOutsideExclusionSet ==
    (Observed("stage") /\ last.before.target = {}) =>
        \A e \in target :
            /\ \A n \in 1..Len(e.path) : e.path[n] \notin ExclusionNames
            /\ e.kind = "file" => ~EndsWith(e.path[Len(e.path)], ".pyc")

\* dir with the assets directory added, removed, or replaced by a file.
AssetsVariants(dir) ==
    {{e \in dir : e.path # AssetsPath} \cup a : a \in {{}, {Dir(AssetsPath)},
                                                      {File(AssetsPath, Script)}}}

\* C12: the health check returns a result for every directory; healthy is
\* true exactly when the bundle exists with size greater than zero and the
\* manifest exists and parses; and healthy is the same with and without an
\* assets directory.
C12_HealthyIffBundleAndManifest ==
    Observed("health") =>
        /\ DOMAIN last.ret = {"healthy", "details"}
        /\ last.ret.healthy <=>
              /\ Exists(last.arg, BundlePath)
              /\ Entry(last.arg, BundlePath).content.size > 0
              /\ IsFile(last.arg, ManifestPath)
              /\ Entry(last.arg, ManifestPath).content.json # "invalid"
        /\ \A d \in AssetsVariants(last.arg) :
              _get_plugin_health_impl(d).healthy = last.ret.healthy

\* A healthy directory without assets whose manifest parses to a scalar.
C12_Witness ==
    /\ Observed("health")
    /\ last.ret.healthy
    /\ ~last.ret.details.assets_present
    /\ last.ret.details.bundle_size = MaxBundleSize
    /\ Entry(last.arg, ManifestPath).content.json = "scalar"
    /\ \E d \in AssetsVariants(last.arg) : _get_plugin_health_impl(d).details.assets_present

\* An install on a store handle without a row of the user, no call raising.
InstallOnStoreWithoutRecord ==
    /\ Observed("install")
    /\ last.faults = {}
    /\ NoRowsOf(last.before.db.working, last.user)
    /\ NoRowsOf(last.before.db.committed, last.user)

\* C13 as stated: install_plugin(U, db) followed by delete_plugin(U, db) on
\* the same store handle, the store holding no record of U beforehand,
\* returns success from delete_plugin whichever users the instance tracks
\* from earlier calls made with other store handles.
C13_InstallThenDeleteSucceeds ==
    InstallOnStoreWithoutRecord =>
        delete_plugin(active, Begin(db, {}), target, last.mgr, last.user).ret.success

\* The same sequence where the instance did not track the user beforehand.
InstallThenDeleteWhenUntracked ==
    (InstallOnStoreWithoutRecord /\ ~Tracked(last.before.active, last.mgr, last.user)) =>
        delete_plugin(active, Begin(db, {}), target, last.mgr, last.user).ret.success

\* The instance tracks the user from a call made with another store handle:
\* the install is rejected and the delete finds no record.
TrackedFromOtherStore ==
    /\ InstallOnStoreWithoutRecord
    /\ Tracked(last.before.active, last.mgr, last.user)
    /\ last.ret = Failure("Plugin already installed for user")
    /\ delete_plugin(active, Begin(db, {}), target, last.mgr, last.user).ret
         = Failure("Plugin not found for user")

\* A call of the module-level delete_plugin for a user with a plugin record
\* in the store, no call raising.
DeleteFunctionForRecorded ==
    /\ Observed("delete_function")
    /\ last.faults = {}
    /\ PluginRowsOf(last.before.db.working, last.user) # {}

\* C14 as stated: whenever the store holds a plugin record of the user, the
\* module-level delete_plugin(user_id, db) returns success and afterwards no
\* plugin or module record of that user remains.
C14_DeleteFunctionDeletes ==
    DeleteFunctionForRecorded =>
        /\ last.ret.success
        /\ NoRowsOf(db.working, last.user)

\* What the function does for every user and store: the instance it
\* constructs tracks nobody, so the call is rejected before the store is
\* reached.
DeleteFunctionRejects ==
    Observed("delete_function") =>
        /\ last.ret = Failure("Plugin not installed for user")
        /\ last.calls = <<>>
        /\ SameTables(db, last.before.db)
        /\ active = last.before.active

\* The user has a record and an instance tracks them, and the function
\* still leaves the record in place.
DeleteFunctionLeavesRecord ==
    /\ DeleteFunctionForRecorded
    /\ Tracked(active, "m1", last.user)
    /\ ~last.ret.success
    /\ PluginRowsOf(db.working, last.user) = {PluginRow(last.user)}

\* How many times the operation under observation issued the call c.
TimesIssued(c) == Cardinality({i \in 1..Len(last.calls) : last.calls[i] = c})

\* The rows of the user after the operation were all there before it, in
\* the session or in what was committed.
NoNewRowsOfUser ==
    /\ PluginRowsOf(db.working, last.user)
         \subseteq PluginRowsOf(last.before.db.working, last.user)
                   \cup PluginRowsOf(last.before.db.committed, last.user)
    /\ ModuleRowsOf(db.working, last.user)
         \subseteq ModuleRowsOf(last.before.db.working, last.user)
                   \cup ModuleRowsOf(last.before.db.committed, last.user)
    /\ PluginRowsOf(db.committed, last.user)
         \subseteq PluginRowsOf(last.before.db.committed, last.user)
    /\ ModuleRowsOf(db.committed, last.user)
         \subseteq ModuleRowsOf(last.before.db.committed, last.user)

\* An install that reached _create_database_records, whose try block did
\* not run to the end: an insert raised (a failing call or a duplicate
\* key), or the commit did.
CreateRaised ==
    /\ Observed("install")
    /\ TimesIssued("insert_plugin") = 1
    /\ ~(TimesIssued("commit") = 1 /\ "commit" \notin last.faults)

DuplicateKeyRolledBack ==
    /\ CreateRaised
    /\ last.faults = {}
    /\ last.ret = Failure("IntegrityError")
    /\ last.calls = <<"insert_plugin", "rollback">>

\* The call c run on its own from the state the calls started from, with
\* the sequential operators.
Serial(c) ==
    IF inflight[c].op = "install_for_user"
    THEN install_for_user(last.before.active, Begin(last.before.db, {}),
                          inflight[c].mgr, inflight[c].user)
    ELSE uninstall_for_user(last.before.active, Begin(last.before.db, {}),
                            inflight[c].mgr, inflight[c].user)

\* A call that has returned before the other has started did what the
\* sequential operators say: same result, same store calls, same state.
InterleavedAgreesWithSerial ==
    \A c \in Calls :
        (inflight[c].pc = "done" /\ \A o \in Calls \ {c} : inflight[o].pc = "start") =>
            /\ inflight[c].ret = Serial(c).ret
            /\ inflight[c].log = Serial(c).db.calls
            /\ SameTables(db, Serial(c).db)
            /\ active = Serial(c).active

\* The store calls the call has issued so far.
IssuedBy(call) == {call.log[k] : k \in 1..Len(call.log)}

\* An uninstall that has returned and whose DELETE of the plugin row
\* returned with rowcount zero.
ZeroRowDelete(call) ==
    /\ call.op = "uninstall_for_user"
    /\ call.pc = "done"
    /\ "delete_plugin" \in IssuedBy(call)
    /\ "rollback" \notin IssuedBy(call)
    /\ call.rowcount = 0

\* The call c returns the zero-row failure in this step.
ReturnsNotOwned(c) ==
    /\ inflight[c].pc # "done"
    /\ inflight'[c].pc = "done"
    /\ inflight'[c].ret = Failure("Plugin not found or not owned by user")

\* C16: the DELETE of the module rows is issued right before the DELETE of
\* the plugin row; when the latter affects zero rows the call returns
\* 'Plugin not found or not owned by user', whatever the module DELETE
\* removed, and issues no commit; and the return of that failure leaves the
\* active sets as they are.
C16_ZeroRowDeleteFails ==
    /\ [](\A c \in Calls :
            /\ \A k \in 1..Len(inflight[c].log) :
                  inflight[c].log[k] = "delete_plugin" =>
                      k > 1 /\ inflight[c].log[k - 1] = "delete_module"
            /\ ZeroRowDelete(inflight[c]) =>
                  /\ inflight[c].ret = Failure("Plugin not found or not owned by user")
                  /\ "commit" \notin IssuedBy(inflight[c]))
    /\ [][\A c \in Calls : ReturnsNotOwned(c) => active' = active]_vars

\* The call's module DELETE removed every module row, the other call
\* deleted the plugin row first, and the user is still tracked by the
\* call's instance.
C16_Witness ==
    \E c \in Calls :
        /\ ZeroRowDelete(inflight[c])
        /\ inflight[c].deleted = Len(ModuleNames)
        /\ inflight[c].log = <<"select_plugin", "delete_module", "delete_plugin">>
        /\ inflight[c].ret = Failure("Plugin not found or not owned by user")
        /\ Tracked(active, inflight[c].mgr, inflight[c].user)

\* The statements of create and of delete, in the order they are issued.
CreateStatements ==
    <<"insert_plugin">> \o [i \in 1..Len(ModuleNames) |-> "insert_module"]
DeleteStatements == <<"delete_module", "delete_plugin">>

\* The operation under observation reached create / delete.
ReachedCreate == Observed("install") /\ TimesIssued("insert_plugin") > 0
ReachedDelete == Observed("delete") /\ TimesIssued("delete_module") > 0

\* A statement of the create under observation raises: a failing INSERT or
\* a key that is in the store already.
InsertRaises ==
    \/ last.faults \cap (InstallPoints \ {"commit"}) # {}
    \/ \E r \in last.before.db.working.plugin : r.id = PluginId(last.user)
    \/ \E r \in last.before.db.working.module, i \in 1..Len(ModuleNames) :
            r.id = ModuleId(last.user, ModuleNames[i])

\* A statement of the delete under observation raises.
DeleteRaises == last.faults \cap {"delete_module", "delete_plugin"} # {}

\* The log is the statements, then one commit, and no rollback.
CommittedAfter(statements, log) ==
    /\ log = statements \o <<"commit">>
    /\ TimesIssued("rollback") = 0

\* C17: create and delete issue exactly one commit when they return
\* success, after all their statements and as their last call; exactly one
\* rollback and no commit when one of their statements raises; the
\* existence lookup, the export and the import issue neither.
C17_TransactionDiscipline ==
    /\ (ReachedCreate /\ last.ret.success) => CommittedAfter(CreateStatements, last.calls)
    /\ (ReachedDelete /\ last.ret.success) =>
            CommittedAfter(<<"select_plugin">> \o DeleteStatements, last.calls)
    /\ ((ReachedCreate /\ InsertRaises) \/ (ReachedDelete /\ DeleteRaises)) =>
            /\ ~last.ret.success
            /\ TimesIssued("rollback") = 1
            /\ last.calls[Len(last.calls)] = "rollback"
            /\ TimesIssued("commit") = 0
    /\ (Observed("status") \/ Observed("export") \/ Observed("import")) =>
            /\ TimesIssued("commit") = 0
            /\ TimesIssued("rollback") = 0

\* The plugin DELETE raises after the module DELETE removed the rows: one
\* rollback, no commit, and the module rows are back.
C17_Witness ==
    /\ ReachedDelete
    /\ last.faults = {"delete_plugin"}
    /\ last.calls = <<"select_plugin", "delete_module", "delete_plugin", "rollback">>
    /\ last.ret = Failure("StoreError")
    /\ Cardinality(ModuleRowsOf(db.working, last.user)) = Len(ModuleNames)

\* The paths the sentence is about all occur: a committed create, a
\* committed delete, a create rolled back on a duplicate key, and an import
\* and an export whose statement raises.
CommittedCreate == ReachedCreate /\ last.ret.success /\ last.faults = {}
CommittedDelete == ReachedDelete /\ last.ret.success /\ last.faults = {}
ImportStatementRaises ==
    Observed("import") /\ last.faults # {} /\ Len(last.calls) > 0
ExportStatementRaises ==
    Observed("export") /\ last.faults = {"select_modules"} /\ Len(last.calls) = 2

\* An uninstall of a user the instance tracks, on a store handle that sees
\* no plugin row of the user.
UninstallOfTrackedWithoutRecord ==
    /\ Observed("delete")
    /\ Tracked(last.before.active, last.mgr, last.user)
    /\ PluginRowsOf(last.before.db.working, last.user) = {}

\* C18: the uninstall of a tracked user without a plugin record fails with
\* 'Plugin not found for user', issues the lookup and nothing else (no
\* DELETE, commit or rollback), and leaves the active sets and the store as
\* they were; and an uninstall removes the user from the active set only
\* when it returns success.
C18_TrackedWithoutRecord ==
    /\ UninstallOfTrackedWithoutRecord =>
          /\ last.ret = Failure("Plugin not found for user")
          /\ last.calls = <<"select_plugin">>
          /\ active = last.before.active
          /\ SameTables(db, last.before.db)
    /\ (Observed("delete") /\ active # last.before.active) =>
          /\ last.ret.success
          /\ active = [last.before.active EXCEPT ![last.mgr] = @ \ {last.user}]

\* The instance tracks the user from an install on another store handle.
C18_Witness ==
    /\ UninstallOfTrackedWithoutRecord
    /\ last.faults = {}
    /\ NoRowsOf(last.before.db.committed, last.user)
    /\ last.ret = Failure("Plugin not found for user")
    /\ Tracked(active, last.mgr, last.user)
    /\ delete_plugin(active, Begin(db, {}), target, last.mgr, last.user).ret
         = Failure("Plugin not found for user")

\* The status query under observation: whether its lookup raises, and what
\* the store handle and the instance hold for the user.
LookupFails == "select_plugin" \in last.faults
HasRecord == PluginRowsOf(last.before.db.working, last.user) # {}
IsTracked == Tracked(last.before.active, last.mgr, last.user)

\* The status reported when the lookup returns.
StatusWhenLookupReturns ==
    /\ last.ret.status = "not_installed" <=> ~HasRecord
    /\ last.ret.status = "healthy" <=> (HasRecord /\ IsTracked)
    /\ last.ret.status = "inactive" <=> (HasRecord /\ ~IsTracked)

\* C19 as stated: the status query changes neither the active sets nor the
\* store; it reports not_installed exactly when there is no plugin record
\* of the user, healthy exactly when there is one and the user is tracked,
\* inactive exactly when there is one and the user is not tracked, and error
\* when the store lookup fails.
C19_StatusReadOnlyAndTotal ==
    Observed("status") =>
        /\ active = last.before.active
        /\ SameTables(db, last.before.db)
        /\ IF LookupFails THEN last.ret.status = "error" ELSE StatusWhenLookupReturns

\* What the query does: a lookup that fails is reported as not_installed,
\* with or without a record.
StatusWithLookupFailureSwallowed ==
    Observed("status") =>
        /\ active = last.before.active
        /\ SameTables(db, last.before.db)
        /\ last.ret.status \in {"not_installed", "healthy", "inactive"}
        /\ IF LookupFails
           THEN last.ret = [exists |-> FALSE, status |-> "not_installed"]
           ELSE StatusWhenLookupReturns

\* The lookup fails for a tracked user with a record.
FailedLookupReportedNotInstalled ==
    /\ Observed("status")
    /\ LookupFails
    /\ HasRecord
    /\ IsTracked
    /\ last.ret.status = "not_installed"

\* Both calls are installs of RacedUser by m1, started with the user not
\* tracked and without rows in the store; both have passed the check of
\* active_users (each has issued its plugin INSERT) and both have returned.
TwoInstallsReturned ==
    /\ \A c \in Calls :
          /\ inflight[c].op = "install_for_user"
          /\ inflight[c].mgr = "m1"
          /\ inflight[c].user = RacedUser
          /\ inflight[c].pc = "done"
          /\ "insert_plugin" \in IssuedBy(inflight[c])
    /\ ~Tracked(last.before.active, "m1", RacedUser)
    /\ NoRowsOf(last.before.db.working, RacedUser)

\* What the two calls report: one success, one duplicate-key failure.
OneSucceedsOtherDuplicate ==
    \E c \in Calls :
        /\ inflight[c].ret = CreatedResult(RacedUser)
        /\ \A o \in Calls \ {c} : inflight[o].ret = Failure("IntegrityError")

\* C20 as stated: of two interleaved installs of one user on one instance
\* that both pass the check of the active set, one reports success and the
\* other a duplicate-key failure, and after both have returned the user is
\* in the active set and the store holds exactly one plugin record of the
\* user.
C20_InterleavedInstalls ==
    TwoInstallsReturned =>
        /\ OneSucceedsOtherDuplicate
        /\ Tracked(active, "m1", RacedUser)
        /\ Cardinality(PluginRowsOf(db.committed, RacedUser)) = 1
        /\ Cardinality(PluginRowsOf(db.working, RacedUser)) = 1

\* The part that holds on every interleaving.
InterleavedInstallsReports ==
    TwoInstallsReturned =>
        /\ OneSucceedsOtherDuplicate
        /\ Tracked(active, "m1", RacedUser)

\* The rollback of the call that failed discarded the plugin row the other
\* call had inserted: that call commits its module rows and reports
\* success, and the store holds no plugin record of the user.
SuccessWithoutPluginRecord ==
    /\ TwoInstallsReturned
    /\ OneSucceedsOtherDuplicate
    /\ Tracked(active, "m1", RacedUser)
    /\ PluginRowsOf(db.committed, RacedUser) = {}
    /\ Cardinality(ModuleRowsOf(db.committed, RacedUser)) = Len(ModuleNames)

\* The write the fault point p names is one the import of user_data issues.
WriteOf(p, user_data) ==
    \/ p = "update_plugin" /\ DOMAIN user_data.user_config # {}
    \/ \E n \in DictKeys(user_data.module_configs) : p = "update_module_" \o n

\* An update whose import step fails: export, uninstall and install run
\* as they do when no call raises, and one write of the import raises.
ImportStepFails ==
    /\ Observed("update")
    /\ \E p \in ImportPoints :
          /\ last.faults = {p}
          /\ WriteOf(p, Exported(last.before.db, last.user))
    /\ update_plugin(last.before.active, Begin(last.before.db, {}), last.before.target,
                     last.mgr, last.user, "m2").ret.success

\* The user's rows are the ones a new install creates, defaults included.
HoldsDefaults(tables, user_id) ==
    /\ PluginRowsOf(tables, user_id) = InstalledTables(user_id).plugin
    /\ ModuleRowsOf(tables, user_id) = InstalledTables(user_id).module

\* C21 as stated: when a write of the import step of an update raises, the
\* update is still reported successful and the user ends it tracked by the
\* new version's instance, with the records present and holding the new
\* version's default configuration.
C21_FailedImportLeavesDefaults ==
    ImportStepFails =>
        /\ last.ret.success
        /\ Tracked(active, "m2", last.user)
        /\ HoldsDefaults(db.working, last.user)

\* What holds: the update succeeds, the user is tracked by the new
\* instance and every record is present; the rows written before the write
\* that raised hold the exported configuration.
FailedImportStillInstalled ==
    ImportStepFails =>
        /\ last.ret.success
        /\ Tracked(active, "m2", last.user)
        /\ ~Tracked(active, last.mgr, last.user)
        /\ PluginRowsOf(db.working, last.user) # {}
        /\ \A i \in 1..Len(ModuleNames) : HasModuleRow(db.working, last.user, ModuleNames[i])
        /\ "update_plugin" \notin last.faults =>
              Exported(db, last.user).user_config
                 = Exported(last.before.db, last.user).user_config

\* The plugin configuration was written back before a module write raised.
PartialImport ==
    /\ ImportStepFails
    /\ last.faults = {"update_module_" \o StatusName}
    /\ Exported(db, last.user).user_config = Dark
    /\ StoredModuleConfig(db.working, last.user, StatusName) = ModuleConfigFields(StatusName)
    /\ StoredModuleConfig(last.before.db.working, last.user, StatusName) = Dark

\* The position of the module name in the mapping handed to the import.
IndexIn(md, name) == CHOOSE i \in 1..Len(md) : md[i][1] = name

\* An import in which the write of the module failing raises; the plugin
\* write, if any, does not.
ModuleWriteRaises(failing) ==
    /\ Observed("import")
    /\ last.faults = {"update_module_" \o failing}
    /\ failing \in DictKeys(last.arg.module_configs)

\* C22 as stated: when the write for one module's configuration raises,
\* the import returns normally and the configuration of every other module
\* of the mapping that has a row is written.
C22_RemainingModulesWritten ==
    \A failing \in {StatusName, ChatName, GhostName} :
        ModuleWriteRaises(failing) =>
            /\ ~last.raised
            /\ \A n \in DictKeys(last.arg.module_configs) \ {failing} :
                  HasModuleRow(db.working, last.user, n) =>
                      StoredModuleConfig(db.working, last.user, n)
                          = DictGet(last.arg.module_configs, n)

\* What the import does: the modules before the failing one are written,
\* the failing one and those after it keep what was stored.
ModulesAfterFailureSkipped ==
    \A failing \in {StatusName, ChatName, GhostName} :
        ModuleWriteRaises(failing) =>
            /\ ~last.raised
            /\ \A n \in DictKeys(last.arg.module_configs) :
                  HasModuleRow(db.working, last.user, n) =>
                      StoredModuleConfig(db.working, last.user, n)
                          = IF IndexIn(last.arg.module_configs, n)
                                 < IndexIn(last.arg.module_configs, failing)
                            THEN DictGet(last.arg.module_configs, n)
                            ELSE StoredModuleConfig(last.before.db.working, last.user, n)

\* The write of the first module raises and the second module, which has a
\* row, keeps its stored configuration instead of the imported one.
SecondModuleNotWritten ==
    /\ ModuleWriteRaises(StatusName)
    /\ DictKeys(last.arg.module_configs) = {StatusName, ChatName}
    /\ HasModuleRow(db.working, last.user, ChatName)
    /\ StoredModuleConfig(db.working, last.user, ChatName) = ModuleConfigFields(ChatName)
    /\ DictGet(last.arg.module_configs, ChatName) # ModuleConfigFields(ChatName)
    /\ last.calls = <<"update_plugin", "update_module">>

\* User ids the identifiers are compared over: the users of the model and
\* ids that contain the separator, the slug or a module name themselves.
IdUsers ==
    Users \cup {"u1_" \o plugin_slug, "u1_" \o plugin_slug \o "_" \o ModuleNames[1],
                "u1_", "_" \o plugin_slug}

\* The identifiers the sentence names, written out.
PluginIdOf(user_id) == user_id \o "_" \o plugin_slug
ModuleIdsOf(user_id) ==
    [i \in 1..Len(ModuleNames) |-> user_id \o "_" \o plugin_slug \o "_" \o ModuleNames[i]]

IdsOf(rows) == {r.id : r \in rows}

\* The install that follows the uninstall under observation, no call raising.
Reinstall == install_plugin(active, Begin(db, {}), source, target, last.mgr, last.user)

\* C23: a successful install returns the plugin id user_slug and the module
\* ids user_slug_moduleName and stores its rows under them; different
\* users get different plugin ids and different (user, module) pairs get
\* different module ids; and the install that follows a successful
\* uninstall of the user returns and stores the identifiers the user's
\* rows had before the uninstall.
C23_IdentifiersDeterministic ==
    /\ (Observed("install") /\ last.ret.success) =>
          /\ last.ret.plugin_id = PluginIdOf(last.user)
          /\ last.ret.modules_created = ModuleIdsOf(last.user)
          /\ IdsOf(PluginRowsOf(db.working, last.user)) = {PluginIdOf(last.user)}
          /\ IdsOf(ModuleRowsOf(db.working, last.user))
               = {ModuleIdsOf(last.user)[i] : i \in 1..Len(ModuleNames)}
    /\ \A u \in IdUsers, v \in IdUsers :
          /\ PluginId(u) = PluginId(v) => u = v
          /\ \A i \in 1..Len(ModuleNames), j \in 1..Len(ModuleNames) :
                ModuleId(u, ModuleNames[i]) = ModuleId(v, ModuleNames[j]) => (u = v /\ i = j)
    /\ (Observed("delete") /\ last.ret.success) =>
          /\ Reinstall.ret.success
          /\ Reinstall.ret.plugin_id = last.ret.plugin_id
          /\ {Reinstall.ret.plugin_id} = IdsOf(PluginRowsOf(last.before.db.working, last.user))
          /\ IdsOf(PluginRowsOf(Reinstall.db.working, last.user))
               = IdsOf(PluginRowsOf(last.before.db.working, last.user))
          /\ IdsOf(ModuleRowsOf(last.before.db.working, last.user))
               \subseteq IdsOf(ModuleRowsOf(Reinstall.db.working, last.user))
          /\ IdsOf(ModuleRowsOf(Reinstall.db.working, last.user))
               = {Reinstall.ret.modules_created[i] : i \in 1..Len(ModuleNames)}

\* An uninstall that deleted the plugin row and both module rows, after
\* which the install creates rows under the same identifiers.
C23_Witness ==
    /\ Observed("delete")
    /\ last.ret.success
    /\ last.ret.deleted_modules = Len(ModuleNames)
    /\ last.ret.plugin_id = PluginIdOf(last.user)
    /\ Reinstall.ret.plugin_id = PluginIdOf(last.user)
    /\ Reinstall.ret.modules_created = ModuleIdsOf(last.user)
    /\ IdsOf(ModuleRowsOf(Reinstall.db.working, last.user))
         = IdsOf(ModuleRowsOf(last.before.db.working, last.user))
    /\ PluginIdOf("u1") # PluginIdOf("u2")

\* All N module rows of the user are in the tables.
AllModuleRows(tables, user_id) ==
    {r.name : r \in ModuleRowsOf(tables, user_id)}
        = {ModuleNames[i] : i \in 1..Len(ModuleNames)}

\* C24: with one manager, one store and one session, operations one after
\* the other and any store call raising (the rollback restoring the
\* uncommitted writes), between operations a user is in active_users
\* exactly when the store holds a plugin row of the user, and a user with
\* a plugin row has all N module rows; nothing else of the kind is pending
\* on the session.
C24_TrackedIffRecorded ==
    \A u \in Users :
        /\ Tracked(active, OneManager, u) <=> PluginRowsOf(db.committed, u) # {}
        /\ PluginRowsOf(db.committed, u) # {} => AllModuleRows(db.committed, u)
        /\ PluginRowsOf(db.working, u) = {} <=> PluginRowsOf(db.committed, u) = {}
        /\ {r.name : r \in ModuleRowsOf(db.working, u)}
             = {r.name : r \in ModuleRowsOf(db.committed, u)}
        /\ PluginRowsOf(db.committed, u) = {} => ModuleRowsOf(db.committed, u) = {}

\* An uninstall whose commit raised after both DELETEs, of a user who is
\* still tracked with the rows in place, while the other user's install
\* failed earlier and left nothing.
C24_Witness ==
    /\ Observed("delete")
    /\ last.faults = {"commit"}
    /\ ~last.ret.success
    /\ TimesIssued("rollback") = 1
    /\ Tracked(active, OneManager, last.user)
    /\ AllModuleRows(db.committed, last.user)
    /\ \E v \in Users \ {last.user} : ~Tracked(active, OneManager, v)

\* The operation under observation is one the frame is stated for.
KeyedByUser == last.op \in {"install", "delete", "export", "import"}

\* The rows of user v, as the session shows them and as committed.
RowsOf(d, v) ==
    [plugin |-> PluginRowsOf(d.working, v), module |-> ModuleRowsOf(d.working, v),
     stored_plugin |-> PluginRowsOf(d.committed, v),
     stored_module |-> ModuleRowsOf(d.committed, v)]

SameMembership(v) ==
    \A m \in Managers : Tracked(active, m, v) <=> Tracked(last.before.active, m, v)

\* C25: install, uninstall, export and import called for a user leave the
\* plugin and module rows of every other user, and the other user's
\* membership in active_users, as they were.
C25_OtherUsersUnchanged ==
    KeyedByUser =>
        \A v \in Users \ {last.user} :
            RowsOf(db, v) = RowsOf(last.before.db, v) /\ SameMembership(v)

\* What holds: the membership of every other user is unchanged, and the
\* rows of every other user are unchanged when the session had no
\* uncommitted writes at the call.
OtherUsersUnchangedOnCleanSession ==
    KeyedByUser =>
        \A v \in Users \ {last.user} :
            /\ SameMembership(v)
            /\ last.before.db.working = last.before.db.committed
                 => RowsOf(db, v) = RowsOf(last.before.db, v)

\* An install for one user fails and rolls back while configuration
\* imported for another user is still uncommitted on the session: the
\* other user's rows are back to what was committed.
PendingImportDiscarded ==
    /\ Observed("install")
    /\ ~last.ret.success
    /\ TimesIssued("rollback") = 1
    /\ "rollback" \notin last.faults
    /\ \E v \in Users \ {last.user} :
          /\ IdsOf(PluginRowsOf(last.before.db.working, v))
               = IdsOf(PluginRowsOf(last.before.db.committed, v))
          /\ PluginRowsOf(last.before.db.working, v)
               # PluginRowsOf(last.before.db.committed, v)
          /\ PluginRowsOf(db.working, v) = PluginRowsOf(last.before.db.committed, v)

\* An uninstall that has returned failure after it issued a DELETE.
FailedAfterDelete(call) ==
    /\ call.op = "uninstall_for_user"
    /\ call.pc = "done"
    /\ ~call.ret.success
    /\ "delete_module" \in IssuedBy(call)

\* C26: an uninstall that returns failure after it issued a DELETE has
\* issued a rollback before it returned.
C26_FailedDeleteRolledBack ==
    \A c \in Calls : FailedAfterDelete(inflight[c]) => "rollback" \in IssuedBy(inflight[c])

\* The uninstall returned failure on the zero-row path with the module
\* rows it deleted still uncommitted on the session.
ZeroRowDeleteLeavesPending ==
    \E c \in Calls :
        /\ ZeroRowDelete(inflight[c])
        /\ ~inflight[c].ret.success
        /\ inflight[c].deleted = Len(ModuleNames)
        /\ ModuleRowsOf(db.committed, inflight[c].user) # {}
        /\ ModuleRowsOf(db.working, inflight[c].user) = {}

\* What holds when calls do not interleave: a delete that fails after a
\* DELETE has issued the rollback last, and the committed rows of the user
\* are those before the call.
SerialFailedDeleteRolledBack ==
    (Observed("delete") /\ ~last.ret.success) =>
        /\ PluginRowsOf(db.committed, last.user)
             = PluginRowsOf(last.before.db.committed, last.user)
        /\ ModuleRowsOf(db.committed, last.user)
             = ModuleRowsOf(last.before.db.committed, last.user)
        /\ TimesIssued("delete_module") > 0 =>
              /\ last.calls[Len(last.calls)] = "rollback"
              /\ "rollback" \notin last.faults => db.working = db.committed

\* Both calls are installs by one manager, for two different users.
InstallsOfTwoUsers ==
    /\ \A c \in Calls : inflight[c].op = "install_for_user" /\ inflight[c].mgr = OneManager
    /\ inflight["c1"].user # inflight["c2"].user

\* C27: when installs for two different users interleave on one manager
\* and one session, an install that returned failure has added no
\* committed plugin or module row of its user, and an install that
\* returned success has its plugin row and all N module rows committed.
C27_OutcomeMatchesStore ==
    InstallsOfTwoUsers =>
        \A c \in Calls :
            inflight[c].pc = "done" =>
                IF inflight[c].ret.success
                THEN /\ PluginRowsOf(db.committed, inflight[c].user) # {}
                     /\ AllModuleRows(db.committed, inflight[c].user)
                ELSE /\ PluginRowsOf(db.committed, inflight[c].user)
                          \subseteq PluginRowsOf(last.before.db.committed, inflight[c].user)
                     /\ ModuleRowsOf(db.committed, inflight[c].user)
                          \subseteq ModuleRowsOf(last.before.db.committed, inflight[c].user)

\* What holds: a failed install adds no committed row of its user.
FailedInstallAddsNothing ==
    InstallsOfTwoUsers =>
        \A c \in Calls :
            (inflight[c].pc = "done" /\ ~inflight[c].ret.success) =>
                /\ PluginRowsOf(db.committed, inflight[c].user)
                     \subseteq PluginRowsOf(last.before.db.committed, inflight[c].user)
                /\ ModuleRowsOf(db.committed, inflight[c].user)
                     \subseteq ModuleRowsOf(last.before.db.committed, inflight[c].user)

\* Both installs have returned, one with success, and the store holds no
\* row of that user: the other install's rollback discarded them all
\* before the commit.
SuccessWithoutAnyRecord ==
    /\ InstallsOfTwoUsers
    /\ \A c \in Calls : inflight[c].pc = "done"
    /\ \E c \in Calls :
          /\ inflight[c].ret.success
          /\ "commit" \in IssuedBy(inflight[c])
          /\ Tracked(active, OneManager, inflight[c].user)
          /\ PluginRowsOf(db.committed, inflight[c].user) = {}
          /\ ModuleRowsOf(db.committed, inflight[c].user) = {}

====
